---- MODULE Spec2Model ----
(***************************************************************************)
(* A model of the analysis pipeline of the Stock-Chart-Analysis-AI-Agent   *)
(* backend: AIAnalysisCrew.run_analysis and the agents it runs in sequence *)
(* (DataOrchestrator, TechnicalAnalyst, VisionPatternRecognition,          *)
(* RiskScenarioAnalyst, ReportWriter), with the /api/analyze-ai endpoint    *)
(* that calls it, TechnicalIndicators._calculate_adx and                   *)
(* StockDataFetcher.fetch_live_data.                                       *)
(*                                                                         *)
(* Conventions.                                                            *)
(*  - A Python dict is a function whose DOMAIN is the set of its keys;     *)
(*    the empty dict is <<>>.  dict.get(k, d) is Get(dict, k, d).          *)
(*  - Prices and the ATR are integers in cents (0.01).  Intermediate       *)
(*    scenario prices are kept in 1/100 of a cent (SCALE per cent), so     *)
(*    that x * 0.5, x * 0.95, x * 1.05 and x * 0.02 are exact.             *)
(*  - round(x, 2) is Round2: nearest cent, an exact tie to the even cent.  *)
(*  - The momentum score moves in steps of 0.5; it is kept in halves       *)
(*    (HALVES per 1.0).  strength_score and rr_ratio are kept in           *)
(*    hundredths (33.33 is 3333).                                          *)
(*  - A text returned by a language model is the function from the        *)
(*    keywords the code searches for that occur in it to their number.     *)
(*  - An Optional result is << >> for None and <<v>> for the value v.      *)
(*  - A formatted message (an f-string) is the tuple of its fixed text and *)
(*    the values formatted into it.                                        *)
(*  - fibonacci.retracements, a dict the code iterates over, is the        *)
(*    sequence of its <<key, price>> items in insertion order.             *)
(***************************************************************************)
EXTENDS Integers, Sequences, FiniteSets, TLC

VARIABLES
    pc,                 \* position of run_analysis
    env,                \* what the collaborators of agent 1 will deliver
    data_package,       \* output of agent 1
    technical_analysis, \* output of agent 2
    pattern_analysis,   \* output of agent 3
    risk_analysis,      \* output of agent 4
    report,             \* output of agent 5
    result,             \* value returned by run_analysis
    http_response,      \* what the /api/analyze-ai endpoint answers
    calls,              \* concurrent analyses: arguments, position, returns
    frames,             \* the local variables of the concurrent analyses
    fetcher,            \* the attributes of the StockDataFetcher instance
    now,                \* time.time(), in seconds
    call,               \* the fetch_live_data call in progress
    stored              \* per cache key, when a caching call last succeeded

\* the variables of run_analysis
pipeline == <<pc, env, data_package, technical_analysis, pattern_analysis,
              risk_analysis, report, result>>

\* the variables run_analysis does not touch
others == <<http_response, calls, frames, fetcher, now, call, stored>>

vars == <<pc, env, data_package, technical_analysis, pattern_analysis,
          risk_analysis, report, result, http_response, calls, frames,
          fetcher, now, call, stored>>

(***************************************************************************)
(* Python values                                                           *)
(***************************************************************************)
EmptyDict == <<>>

\* None, as the value of a variable not assigned yet
NoValue == <<>>

\* None, as the result of dict.get(key) for a string-valued key
PyNone == "None"

Get(d, k, default) == IF k \in DOMAIN d THEN d[k] ELSE default

Abs(x) == IF x < 0 THEN -x ELSE x

Min(a, b) == IF a < b THEN a ELSE b

\* floor of n / d for d > 0 and any integer n
FloorDiv(n, d) == IF n >= 0 THEN n \div d ELSE -((-n + d - 1) \div d)

\* n / d (d > 0) rounded to the nearest integer, an exact tie to the even one
RoundHalfEven(n, d) ==
    LET q == FloorDiv(n, d)
        r == n - q * d
    IN  IF 2 * r < d THEN q
        ELSE IF 2 * r > d THEN q + 1
        ELSE IF q % 2 = 0 THEN q ELSE q + 1

\* units of a scaled price per cent
SCALE == 100

\* round(x, 2) of a price x given in 1/SCALE cents: the result is in cents
Round2(x) == RoundHalfEven(x, SCALE)

\* steps of the momentum score per 1.0
HALVES == 2

(***************************************************************************)
(* Agent 2: TechnicalAnalyst                                               *)
(***************************************************************************)
\* the checks with the two price distances added to the score as they are
TrendChecksByDistance(indicators) ==
    LET ma  == Get(indicators, "moving_averages", EmptyDict)
        st  == Get(indicators, "supertrend", EmptyDict)
        ich == Get(indicators, "ichimoku", EmptyDict)
        sma50  == Get(ma, "SMA_50", 0)
        sma200 == Get(ma, "SMA_200", 0)
    IN  [price_vs_SMA50  |-> Get(ma, "price_vs_SMA50", 0),
         price_vs_SMA200 |-> Get(ma, "price_vs_SMA200", 0),
         cross           |-> IF sma50 > sma200 THEN 1
                             ELSE IF sma50 < sma200 THEN -1 ELSE 0,
         supertrend      |-> IF Get(st, "signal", PyNone) = "BULLISH" THEN 1 ELSE -1,
         ichimoku        |-> IF Get(ich, "price_vs_cloud", PyNone) = "ABOVE" THEN 1
                             ELSE IF Get(ich, "price_vs_cloud", PyNone) = "BELOW" THEN -1
                             ELSE 0]

\* contribution of each of the five scored trend checks
TrendChecks(indicators) ==
    LET ma  == Get(indicators, "moving_averages", EmptyDict)
        st  == Get(indicators, "supertrend", EmptyDict)
        ich == Get(indicators, "ichimoku", EmptyDict)
        sma50  == Get(ma, "SMA_50", 0)
        sma200 == Get(ma, "SMA_200", 0)
    IN  [price_vs_SMA50  |-> IF Get(ma, "price_vs_SMA50", 0) > 0 THEN 1 ELSE -1,
         price_vs_SMA200 |-> IF Get(ma, "price_vs_SMA200", 0) > 0 THEN 1 ELSE -1,
         cross           |-> IF sma50 > sma200 THEN 1
                             ELSE IF sma50 < sma200 THEN -1 ELSE 0,
         supertrend      |-> IF Get(st, "signal", PyNone) = "BULLISH" THEN 1 ELSE -1,
         ichimoku        |-> IF Get(ich, "price_vs_cloud", PyNone) = "ABOVE" THEN 1
                             ELSE IF Get(ich, "price_vs_cloud", PyNone) = "BELOW" THEN -1
                             ELSE 0]

\* the labels with a score of 3 not yet STRONG
TrendLabelAbove(score) ==
    IF score > 3 THEN "STRONG BULLISH"
    ELSE IF score >= 1 THEN "BULLISH"
    ELSE IF score < -3 THEN "STRONG BEARISH"
    ELSE IF score <= -1 THEN "BEARISH"
    ELSE "NEUTRAL"

TrendLabel(score) ==
    IF score >= 3 THEN "STRONG BULLISH"
    ELSE IF score >= 1 THEN "BULLISH"
    ELSE IF score <= -3 THEN "STRONG BEARISH"
    ELSE IF score <= -1 THEN "BEARISH"
    ELSE "NEUTRAL"

\* the trend analysis with a STRONG ADX counted as one more bullish check
TrendScoredWithAdx(indicators) ==
    LET c   == TrendChecks(indicators)
        adx == Get(indicators, "adx", EmptyDict)
        adx_strength == Get(adx, "strength", "WEAK")
        score == c.price_vs_SMA50 + c.price_vs_SMA200 + c.cross
                 + c.supertrend + c.ichimoku
                 + (IF adx_strength = "STRONG" THEN 1 ELSE 0)
    IN  [trend        |-> TrendLabel(score),
         score        |-> score,
         signals      |-> << <<"ADX shows trend", adx_strength, Get(adx, "value", 0)>> >>,
         adx_strength |-> adx_strength]

_analyze_trend(indicators) ==
    LET c   == TrendChecks(indicators)
        adx == Get(indicators, "adx", EmptyDict)
        adx_strength == Get(adx, "strength", "WEAK")
        score == c.price_vs_SMA50 + c.price_vs_SMA200 + c.cross
                 + c.supertrend + c.ichimoku
        signals ==
            << IF c.price_vs_SMA50 = 1 THEN <<"Price above SMA 50 (bullish)">>
               ELSE <<"Price below SMA 50 (bearish)">>,
               IF c.price_vs_SMA200 = 1 THEN <<"Price above SMA 200 (long-term bullish)">>
               ELSE <<"Price below SMA 200 (long-term bearish)">> >>
            \o (IF c.cross = 1 THEN << <<"Golden Cross formation (SMA 50 > SMA 200)">> >>
                ELSE IF c.cross = -1 THEN << <<"Death Cross formation (SMA 50 < SMA 200)">> >>
                ELSE << >>)
            \o << IF c.supertrend = 1 THEN <<"SuperTrend: BULLISH">>
                  ELSE <<"SuperTrend: BEARISH">> >>
            \o (IF c.ichimoku = 1 THEN << <<"Price above Ichimoku Cloud (bullish)">> >>
                ELSE IF c.ichimoku = -1 THEN << <<"Price below Ichimoku Cloud (bearish)">> >>
                ELSE << >>)
            \o << IF adx_strength \in {"STRONG", "MODERATE"}
                  THEN <<"ADX shows trend", adx_strength, Get(adx, "value", 0)>>
                  ELSE <<"ADX shows WEAK trend - choppy market", Get(adx, "value", 0)>> >>
    IN  [trend        |-> TrendLabel(score),
         score        |-> score,
         signals      |-> signals,
         adx_strength |-> adx_strength]

\* the checks with an RSI of exactly 50 taken as bullish
MomentumChecksAtOrAbove(indicators) ==
    LET rsi   == Get(indicators, "rsi", EmptyDict)
        macd  == Get(indicators, "macd", EmptyDict)
        stoch == Get(indicators, "stochastic", EmptyDict)
        rsi_val    == Get(rsi, "value", 50)
        rsi_cond   == Get(rsi, "condition", "NEUTRAL")
        macd_sig   == Get(macd, "signal", "NEUTRAL")
        stoch_cond == Get(stoch, "condition", "NEUTRAL")
    IN  [rsi   |-> IF rsi_cond = "OVERSOLD" THEN HALVES
                   ELSE IF rsi_cond = "OVERBOUGHT" THEN -HALVES
                   ELSE IF rsi_val >= 50 THEN 1 ELSE -1,
         macd  |-> IF macd_sig = "BULLISH" THEN HALVES ELSE -HALVES,
         stoch |-> IF stoch_cond = "OVERSOLD" THEN 1
                   ELSE IF stoch_cond = "OVERBOUGHT" THEN -1 ELSE 0]

\* contribution, in halves, of each of the three momentum checks
MomentumChecks(indicators) ==
    LET rsi   == Get(indicators, "rsi", EmptyDict)
        macd  == Get(indicators, "macd", EmptyDict)
        stoch == Get(indicators, "stochastic", EmptyDict)
        rsi_val    == Get(rsi, "value", 50)
        rsi_cond   == Get(rsi, "condition", "NEUTRAL")
        macd_sig   == Get(macd, "signal", "NEUTRAL")
        stoch_cond == Get(stoch, "condition", "NEUTRAL")
    IN  [rsi   |-> IF rsi_cond = "OVERSOLD" THEN HALVES
                   ELSE IF rsi_cond = "OVERBOUGHT" THEN -HALVES
                   ELSE IF rsi_val > 50 THEN 1 ELSE -1,
         macd  |-> IF macd_sig = "BULLISH" THEN HALVES ELSE -HALVES,
         stoch |-> IF stoch_cond = "OVERSOLD" THEN 1
                   ELSE IF stoch_cond = "OVERBOUGHT" THEN -1 ELSE 0]

\* thresholds 2, 0.5, -2, -0.5 of the source, in halves
MomentumLabel(score) ==
    IF score >= 2 * HALVES THEN "STRONG BULLISH"
    ELSE IF 2 * score >= HALVES THEN "BULLISH"
    ELSE IF score <= -2 * HALVES THEN "STRONG BEARISH"
    ELSE IF 2 * score <= -HALVES THEN "BEARISH"
    ELSE "NEUTRAL"

_check_rsi_divergence(rsi_value) ==
    IF rsi_value > 70 THEN "Potential bearish divergence zone"
    ELSE IF rsi_value < 30 THEN "Potential bullish divergence zone"
    ELSE PyNone

_analyze_momentum(indicators) ==
    LET c == MomentumChecks(indicators)
        score == c.rsi + c.macd + c.stoch
        rsi_val == Get(Get(indicators, "rsi", EmptyDict), "value", 50)
    IN  [momentum       |-> MomentumLabel(score),
         score          |-> score,
         rsi_divergence |-> _check_rsi_divergence(rsi_val)]

\* atr.percentage is taken in whole percent
_analyze_volatility(indicators) ==
    LET atr == Get(indicators, "atr", EmptyDict)
        atr_pct == Get(atr, "percentage", 0)
    IN  [volatility_level |-> IF atr_pct > 4 THEN "HIGH"
                              ELSE IF atr_pct > 2 THEN "MODERATE" ELSE "LOW",
         atr_percentage   |-> atr_pct]

\* volume.relative_volume is taken in hundredths: 1.5 is 150
_analyze_volume(indicators) ==
    LET vol == Get(indicators, "volume", EmptyDict)
        rel_vol == Get(vol, "relative_volume", 100)
    IN  [volume_status   |-> IF rel_vol > 150 THEN "VERY HIGH"
                             ELSE IF rel_vol > 120 THEN "HIGH"
                             ELSE IF rel_vol < 80 THEN "LOW" ELSE "NORMAL",
         relative_volume |-> rel_vol]

\* a sort that puts an entry before the entries of its price
RECURSIVE InsertBeforeEqual(_, _, _)
InsertBeforeEqual(sorted, e, reverse) ==
    IF sorted = << >> THEN << e >>
    ELSE LET last == sorted[Len(sorted)]
             stays == IF reverse THEN last[2] > e[2] ELSE last[2] < e[2]
         IN  IF stays THEN Append(sorted, e)
             ELSE Append(InsertBeforeEqual(SubSeq(sorted, 1, Len(sorted) - 1), e, reverse),
                         last)

\* list.sort(key = price) is stable: e goes behind every entry that does not
\* sort after it
RECURSIVE InsertByPrice(_, _, _)
InsertByPrice(sorted, e, reverse) ==
    IF sorted = << >> THEN << e >>
    ELSE LET last == sorted[Len(sorted)]
             stays == IF reverse THEN last[2] >= e[2] ELSE last[2] <= e[2]
         IN  IF stays THEN Append(sorted, e)
             ELSE Append(InsertByPrice(SubSeq(sorted, 1, Len(sorted) - 1), e, reverse),
                         last)

RECURSIVE SortByPrice(_, _)
SortByPrice(levels, reverse) ==
    IF levels = << >> THEN << >>
    ELSE InsertByPrice(SortByPrice(SubSeq(levels, 1, Len(levels) - 1), reverse),
                       levels[Len(levels)], reverse)

\* entries kept in nearest_resistance and nearest_support
NEAREST == 3

Truncate(levels) == SubSeq(levels, 1, Min(NEAREST, Len(levels)))

\* the Fibonacci retracements on one side of the price, in dict order
RECURSIVE FibLevels(_, _, _)
FibLevels(fib_retraces, current_price, above) ==
    IF fib_retraces = << >> THEN << >>
    ELSE LET item  == Head(fib_retraces)
             entry == << "Fibonacci " \o item[1], item[2] >>
             rest  == FibLevels(Tail(fib_retraces), current_price, above)
         IN  IF (item[2] > current_price) = above THEN << entry >> \o rest ELSE rest

\* the lists with every pivot level placed by its price alone
CollectLevelsByPrice(indicators, current_price) ==
    LET fib   == Get(indicators, "fibonacci", EmptyDict)
        pivot == Get(indicators, "pivot_points", EmptyDict)
        fib_retraces == Get(fib, "retracements", << >>)
        Side(label, key, above) ==
            IF key \in DOMAIN pivot /\ pivot[key] # current_price
                                    /\ (pivot[key] > current_price) = above
            THEN << << label, pivot[key] >> >> ELSE << >>
        Pivots(above) == Side("Pivot R1", "r1", above) \o Side("Pivot R2", "r2", above)
                         \o Side("Pivot S1", "s1", above) \o Side("Pivot S2", "s2", above)
    IN  [resistance |-> FibLevels(fib_retraces, current_price, TRUE) \o Pivots(TRUE),
         support    |-> FibLevels(fib_retraces, current_price, FALSE) \o Pivots(FALSE)]

\* the resistance and support lists before they are sorted
CollectLevels(indicators, current_price) ==
    LET fib   == Get(indicators, "fibonacci", EmptyDict)
        pivot == Get(indicators, "pivot_points", EmptyDict)
        fib_retraces == Get(fib, "retracements", << >>)
    IN  [resistance |->
            FibLevels(fib_retraces, current_price, TRUE)
            \o (IF Get(pivot, "r1", 0) > current_price
                THEN << << "Pivot R1", Get(pivot, "r1", 0) >> >> ELSE << >>)
            \o (IF Get(pivot, "r2", 0) > current_price
                THEN << << "Pivot R2", Get(pivot, "r2", 0) >> >> ELSE << >>),
         support |->
            FibLevels(fib_retraces, current_price, FALSE)
            \o (IF Get(pivot, "s1", 0) < current_price
                THEN << << "Pivot S1", Get(pivot, "s1", 0) >> >> ELSE << >>)
            \o (IF Get(pivot, "s2", 0) < current_price
                THEN << << "Pivot S2", Get(pivot, "s2", 0) >> >> ELSE << >>)]

_analyze_support_resistance(indicators, latest_candle) ==
    LET current_price == latest_candle.close
        collected == CollectLevels(indicators, current_price)
        levels == [resistance |-> SortByPrice(collected.resistance, FALSE),
                   support    |-> SortByPrice(collected.support, TRUE)]
    IN  [current_price      |-> current_price,
         nearest_resistance |-> Truncate(levels.resistance),
         nearest_support    |-> Truncate(levels.support),
         all_levels         |-> levels]

\* indicators that must agree for a confluence
CONFLUENCE == 3

\* the counts with a price at or below the SMA 50 taken as bearish
ConfluenceCountsAtOrBelow(indicators) ==
    LET st_sig   == Get(Get(indicators, "supertrend", EmptyDict), "signal", PyNone)
        macd_sig == Get(Get(indicators, "macd", EmptyDict), "signal", PyNone)
        pvs50    == Get(Get(indicators, "moving_averages", EmptyDict), "price_vs_SMA50", 0)
        rsi_cond == Get(Get(indicators, "rsi", EmptyDict), "condition", PyNone)
        One(b) == IF b THEN 1 ELSE 0
    IN  [bullish |-> One(st_sig = "BULLISH") + One(macd_sig = "BULLISH")
                     + One(pvs50 > 0) + One(rsi_cond = "OVERSOLD"),
         bearish |-> One(st_sig = "BEARISH") + One(macd_sig = "BEARISH")
                     + One(pvs50 <= 0) + One(rsi_cond = "OVERBOUGHT")]

\* bullish_count and bearish_count of _identify_confluences
ConfluenceCounts(indicators) ==
    LET st_sig   == Get(Get(indicators, "supertrend", EmptyDict), "signal", PyNone)
        macd_sig == Get(Get(indicators, "macd", EmptyDict), "signal", PyNone)
        pvs50    == Get(Get(indicators, "moving_averages", EmptyDict), "price_vs_SMA50", 0)
        rsi_cond == Get(Get(indicators, "rsi", EmptyDict), "condition", PyNone)
        One(b) == IF b THEN 1 ELSE 0
    IN  [bullish |-> One(st_sig = "BULLISH") + One(macd_sig = "BULLISH")
                     + One(pvs50 > 0) + One(rsi_cond = "OVERSOLD"),
         bearish |-> One(st_sig = "BEARISH") + One(macd_sig = "BEARISH")
                     + One(pvs50 < 0) + One(rsi_cond = "OVERBOUGHT")]

\* confluences that fire when two indicators agree
ConfluencesOfTwo(indicators) ==
    LET n == ConfluenceCounts(indicators)
    IN  (IF n.bullish >= 2
         THEN << << "Strong bullish confluence", n.bullish >> >> ELSE << >>)
        \o (IF n.bearish >= 2
            THEN << << "Strong bearish confluence", n.bearish >> >> ELSE << >>)

_identify_confluences(indicators) ==
    LET n == ConfluenceCounts(indicators)
    IN  (IF n.bullish >= CONFLUENCE
         THEN << << "Strong bullish confluence", n.bullish >> >> ELSE << >>)
        \o (IF n.bearish >= CONFLUENCE
            THEN << << "Strong bearish confluence", n.bearish >> >> ELSE << >>)

\* the bias with strict thresholds
BiasStrictlyBeyond(analysis) ==
    LET total_score == HALVES * analysis.trend_analysis.score
                       + analysis.momentum_analysis.score
    IN  IF total_score > 4 * HALVES THEN "STRONG BULLISH"
        ELSE IF total_score > 2 * HALVES THEN "BULLISH"
        ELSE IF total_score < -4 * HALVES THEN "STRONG BEARISH"
        ELSE IF total_score < -2 * HALVES THEN "BEARISH"
        ELSE "NEUTRAL"

\* thresholds 4, 2, -4, -2 on trend score + momentum score, taken in halves
_determine_bias(analysis) ==
    LET total_score == HALVES * analysis.trend_analysis.score
                       + analysis.momentum_analysis.score
    IN  IF total_score >= 4 * HALVES THEN "STRONG BULLISH"
        ELSE IF total_score >= 2 * HALVES THEN "BULLISH"
        ELSE IF total_score <= -4 * HALVES THEN "STRONG BEARISH"
        ELSE IF total_score <= -2 * HALVES THEN "BEARISH"
        ELSE "NEUTRAL"

max_trend == 6

max_momentum == 3

\* the strength score without the absolute values
SignedStrengthScore(analysis) ==
    LET confluence_contribution == Min(Len(analysis.signal_confluence) * 10, 20)
        den == max_trend * max_momentum * HALVES
    IN  RoundHalfEven(
            100 * (40 * analysis.trend_analysis.score * max_momentum * HALVES
                   + 40 * analysis.momentum_analysis.score * max_trend
                   + confluence_contribution * den),
            den)

\* round((trend / max_trend) * 40 + (momentum / max_momentum) * 40
\*       + min(confluences * 10, 20), 2), in hundredths
_calculate_strength_score(analysis) ==
    LET trend_score      == Abs(analysis.trend_analysis.score)
        momentum_score   == Abs(analysis.momentum_analysis.score)
        confluence_count == Len(analysis.signal_confluence)
        confluence_contribution == Min(confluence_count * 10, 20)
        den == max_trend * max_momentum * HALVES
    IN  RoundHalfEven(
            100 * (40 * trend_score * max_momentum * HALVES
                   + 40 * momentum_score * max_trend
                   + confluence_contribution * den),
            den)

_identify_key_levels(indicators, latest_candle) ==
    LET ma    == Get(indicators, "moving_averages", EmptyDict)
        pivot == Get(indicators, "pivot_points", EmptyDict)
    IN  [current      |-> latest_candle.close,
         sma_50       |-> Get(ma, "SMA_50", 0),
         sma_200      |-> Get(ma, "SMA_200", 0),
         pivot        |-> Get(pivot, "pivot", 0),
         resistance_1 |-> Get(pivot, "r1", 0),
         support_1    |-> Get(pivot, "s1", 0)]

\* the dict TechnicalAnalyst.analyze returns for a package holding indicators
TechnicalAnalysis(package) ==
    LET indicators    == package.indicators
        latest_candle == package.latest_candle
        analysis ==
            [trend_analysis      |-> _analyze_trend(indicators),
             momentum_analysis   |-> _analyze_momentum(indicators),
             volatility_analysis |-> _analyze_volatility(indicators),
             volume_analysis     |-> _analyze_volume(indicators),
             support_resistance  |-> _analyze_support_resistance(indicators, latest_candle),
             signal_confluence   |-> _identify_confluences(indicators)]
    IN  analysis @@
        [overall_bias   |-> _determine_bias(analysis),
         strength_score |-> _calculate_strength_score(analysis),
         key_levels     |-> _identify_key_levels(indicators, latest_candle)]

(***************************************************************************)
(* Texts of the language models                                            *)
(***************************************************************************)
\* A call of a language model either raises or returns a text; the text is
\* the function from the keywords that occur in it to their number.
LLMFailure == [ok |-> FALSE, text |-> << >>]

LLMText(t) == [ok |-> TRUE, text |-> t]

\* text.count(word)
Count(text, word) == Get(text, word, 0)

\* word in text
Contains(text, word) == Count(text, word) > 0

\* word in bias taken as bias == word
InBiasExact(word, bias) == bias = word

\* word in bias, for the five values of overall_bias
InBias(word, bias) ==
    CASE word = "BULLISH" -> bias \in {"BULLISH", "STRONG BULLISH"}
      [] word = "BEARISH" -> bias \in {"BEARISH", "STRONG BEARISH"}
      [] word = "STRONG"  -> bias \in {"STRONG BULLISH", "STRONG BEARISH"}
      [] OTHER            -> bias = word

(***************************************************************************)
(* Agent 4: RiskScenarioAnalyst                                            *)
(***************************************************************************)
\* an extractor that reads a scenario out of the text
ExtractedScenario(text, scenario_type, current_price, atr) ==
    << [scenario   |-> scenario_type,
        entry      |-> Round2(current_price),
        stop       |-> Round2(current_price - atr),
        target     |-> Round2(current_price + 2 * atr),
        rr_ratio   |-> 200,
        confidence |-> "Moderate",
        warreni_take |-> "See analysis"] >>

\* placeholder of the source: no scenario is ever read out of the text
_extract_single_scenario(text, scenario_type, current_price, atr) == << >>

_extract_scenarios_from_text(text, current_price, atr) ==
    LET Try(found, scenario_type) ==
            IF found
            THEN _extract_single_scenario(text, scenario_type, current_price, atr)
            ELSE << >>
    IN  Try(Contains(text, "bullish aggressive") \/ Contains(text, "aggressive entry"),
            "bullish_aggressive")
        \o Try(Contains(text, "bullish conservative") \/ Contains(text, "conservative"),
               "bullish_conservative")
        \o Try(Contains(text, "bearish") \/ Contains(text, "counter"), "bearish")

\* reward / risk rounded to 2 decimals, in hundredths; 0 unless guard holds
RiskReward(reward, risk, guard) ==
    IF guard THEN RoundHalfEven(100 * reward, risk) ELSE 0

\* the inputs with the farthest of the nearest levels instead of the nearest
ScenarioInputsFarthest(package, analysis) ==
    LET current_price == package.latest_candle.close
        atr_dict == Get(package.indicators, "atr", EmptyDict)
        resistance_levels == analysis.support_resistance.nearest_resistance
        support_levels    == analysis.support_resistance.nearest_support
    IN  [current_price |-> current_price * SCALE,
         atr        |-> IF "value" \in DOMAIN atr_dict THEN atr_dict.value * SCALE
                        ELSE (current_price * SCALE * 2) \div 100,
         resistance |-> IF resistance_levels # << >>
                        THEN resistance_levels[Len(resistance_levels)][2] * SCALE
                        ELSE (current_price * SCALE * 105) \div 100,
         support    |-> IF support_levels # << >>
                        THEN support_levels[Len(support_levels)][2] * SCALE
                        ELSE (current_price * SCALE * 95) \div 100]

\* current price, ATR, support and resistance the scenarios are built from,
\* in 1/SCALE cents
ScenarioInputs(package, analysis) ==
    LET current_price == package.latest_candle.close
        atr_dict == Get(package.indicators, "atr", EmptyDict)
        support_resistance == analysis.support_resistance
        resistance_levels == support_resistance.nearest_resistance
        support_levels    == support_resistance.nearest_support
    IN  [current_price |-> current_price * SCALE,
         \* current_price * 0.02
         atr        |-> IF "value" \in DOMAIN atr_dict THEN atr_dict.value * SCALE
                        ELSE (current_price * SCALE * 2) \div 100,
         \* current_price * 1.05
         resistance |-> IF resistance_levels # << >>
                        THEN resistance_levels[1][2] * SCALE
                        ELSE (current_price * SCALE * 105) \div 100,
         \* current_price * 0.95
         support    |-> IF support_levels # << >>
                        THEN support_levels[1][2] * SCALE
                        ELSE (current_price * SCALE * 95) \div 100]

_create_fallback_scenarios(package, analysis) ==
    LET inp   == ScenarioInputs(package, analysis)
        bias == analysis.overall_bias
        entry_agg  == inp.current_price
        stop_agg   == inp.support
        target_agg == inp.resistance
        entry_cons  == inp.support + inp.atr \div 2
        stop_cons   == inp.support - inp.atr
        target_cons == inp.resistance
        entry_bear  == inp.current_price
        stop_bear   == inp.resistance + inp.atr
        target_bear == inp.support
        bullish ==
            << [scenario   |-> "Bullish (Aggressive)",
                entry      |-> Round2(entry_agg),
                stop       |-> Round2(stop_agg),
                target     |-> Round2(target_agg),
                rr_ratio   |-> RiskReward(target_agg - entry_agg, entry_agg - stop_agg,
                                          entry_agg > stop_agg),
                confidence |-> IF InBias("STRONG", bias) THEN "Moderate" ELSE "Low",
                warreni_take |-> "Enter near current levels if bias holds"],
               [scenario   |-> "Bullish (Conservative)",
                entry      |-> Round2(entry_cons),
                stop       |-> Round2(stop_cons),
                target     |-> Round2(target_cons),
                rr_ratio   |-> RiskReward(target_cons - entry_cons, entry_cons - stop_cons,
                                          entry_cons > stop_cons),
                confidence |-> IF InBias("STRONG", bias) THEN "High" ELSE "Moderate",
                warreni_take |-> "Wait for dip to support before entering"] >>
        bearish ==
            << [scenario   |-> IF InBias("BULLISH", bias) THEN "Bearish (Counter-trend)"
                               ELSE "Bearish (Aggressive)",
                entry      |-> Round2(entry_bear),
                stop       |-> Round2(stop_bear),
                target     |-> Round2(target_bear),
                rr_ratio   |-> RiskReward(entry_bear - target_bear, stop_bear - entry_bear,
                                          stop_bear > entry_bear),
                confidence |-> IF InBias("BEARISH", bias) THEN "Moderate" ELSE "Low",
                warreni_take |-> IF InBias("BULLISH", bias)
                                 THEN "Counter-trend trade - high risk"
                                 ELSE "Enter on breakdown"] >>
    IN  (IF InBias("BULLISH", bias) THEN bullish ELSE << >>) \o bearish

\* scenarios whose confidence is graded by their rr_ratio
ScenariosGradedByRatio(llm_response, package, analysis) ==
    LET scenarios == _create_fallback_scenarios(package, analysis)
    IN  [i \in DOMAIN scenarios |->
            [scenarios[i] EXCEPT !.confidence =
                IF scenarios[i].rr_ratio >= 200 THEN "High"
                ELSE IF scenarios[i].rr_ratio >= 100 THEN "Moderate" ELSE "Low"]]

_parse_scenarios(llm_response, package, analysis) ==
    LET inp == ScenarioInputs(package, analysis)
        scenarios == _extract_scenarios_from_text(llm_response, inp.current_price, inp.atr)
    IN  IF scenarios = << >>
        THEN _create_fallback_scenarios(package, analysis)
        ELSE scenarios

\* estimated_success_rate in tenths of a percent: base + strength / 100 * span
_simulate_backtest(package, analysis) ==
    LET bias     == analysis.overall_bias
        strength == analysis.strength_score
        Rate(base, span) == RoundHalfEven(base * 100000 + strength * span * 10, 10000)
    IN  [estimated_success_rate |->
            IF InBias("STRONG BULLISH", bias) THEN Rate(65, 15)
            ELSE IF InBias("BULLISH", bias) THEN Rate(50, 15)
            ELSE IF InBias("STRONG BEARISH", bias) THEN Rate(65, 15)
            ELSE IF InBias("BEARISH", bias) THEN Rate(50, 15)
            ELSE Rate(40, 10),
         sample_size     |-> "(Based on similar setups)",
         lookback_period |-> "6 months",
         note            |-> "Estimated based on technical bias and strength"]

\* the grade with the thresholds 70, 50 and 30 in the higher grade
RiskGradeAtOrAbove(analysis) ==
    LET strength   == analysis.strength_score
        volatility == analysis.volatility_analysis.volatility_level
    IN  IF strength >= 7000 /\ volatility # "HIGH" THEN "A (Low Risk)"
        ELSE IF strength >= 5000 THEN "B (Moderate Risk)"
        ELSE IF strength >= 3000 THEN "C (High Risk)"
        ELSE "D (Very High Risk)"

_calculate_risk_grade(analysis) ==
    LET strength   == analysis.strength_score
        volatility == analysis.volatility_analysis.volatility_level
    IN  IF strength > 7000 /\ volatility # "HIGH" THEN "A (Low Risk)"
        ELSE IF strength > 5000 THEN "B (Moderate Risk)"
        ELSE IF strength > 3000 THEN "C (High Risk)"
        ELSE "D (Very High Risk)"

RECURSIVE SumRR(_)
SumRR(rr_ratios) ==
    IF rr_ratios = << >> THEN 0 ELSE Head(rr_ratios) + SumRR(Tail(rr_ratios))

\* the metrics with the mean taken over all the scenarios
RiskMetricsOverAll(package, analysis, scenarios) ==
    LET current_price == package.latest_candle.close
        Positive(s) == s.rr_ratio > 0
        positive  == SelectSeq(scenarios, Positive)
        rr_ratios == [i \in 1..Len(positive) |-> positive[i].rr_ratio]
    IN  [average_rr_ratio |-> IF scenarios # << >>
                              THEN RoundHalfEven(SumRR(rr_ratios), Len(scenarios))
                              ELSE 0,
         volatility_level |-> analysis.volatility_analysis.volatility_level,
         expected_range   |-> << "(daily)", RoundHalfEven(current_price * 98, 100),
                                 RoundHalfEven(current_price * 102, 100) >>,
         risk_grade       |-> _calculate_risk_grade(analysis)]

_calculate_risk_metrics(package, analysis, scenarios) ==
    LET current_price == package.latest_candle.close
        Positive(s) == s.rr_ratio > 0
        positive  == SelectSeq(scenarios, Positive)
        rr_ratios == [i \in 1..Len(positive) |-> positive[i].rr_ratio]
    IN  [average_rr_ratio |-> IF rr_ratios # << >>
                              THEN RoundHalfEven(SumRR(rr_ratios), Len(rr_ratios))
                              ELSE 0,
         volatility_level |-> analysis.volatility_analysis.volatility_level,
         expected_range   |-> << "(daily)", RoundHalfEven(current_price * 98, 100),
                                 RoundHalfEven(current_price * 102, 100) >>,
         risk_grade       |-> _calculate_risk_grade(analysis)]

\* the position with a strength of 40 counted as weak
PositionSizeAtOrBelow(package, analysis) ==
    LET volatility == analysis.volatility_analysis.volatility_level
        strength   == analysis.strength_score
        weak       == strength <= 4000
    IN  [recommended_position |->
            IF volatility = "HIGH" THEN (IF weak THEN "1%" ELSE "1-2%")
            ELSE IF volatility = "MODERATE" THEN (IF weak THEN "2%" ELSE "2-3%")
            ELSE (IF weak THEN "3%" ELSE "3-5%"),
         rationale |->
            (IF volatility = "HIGH" THEN "High volatility requires smaller position"
             ELSE IF volatility = "MODERATE"
             THEN "Moderate volatility allows standard sizing"
             ELSE "Low volatility can handle larger position")
            \o (IF weak THEN ", weak signals reduce size" ELSE ""),
         max_risk_per_trade |-> "2% of capital"]

_recommend_position_size(package, analysis) ==
    LET volatility == analysis.volatility_analysis.volatility_level
        strength   == analysis.strength_score
        weak       == strength < 4000
    IN  [recommended_position |->
            IF volatility = "HIGH" THEN (IF weak THEN "1%" ELSE "1-2%")
            ELSE IF volatility = "MODERATE" THEN (IF weak THEN "2%" ELSE "2-3%")
            ELSE (IF weak THEN "3%" ELSE "3-5%"),
         rationale |->
            (IF volatility = "HIGH" THEN "High volatility requires smaller position"
             ELSE IF volatility = "MODERATE"
             THEN "Moderate volatility allows standard sizing"
             ELSE "Low volatility can handle larger position")
            \o (IF weak THEN ", weak signals reduce size" ELSE ""),
         max_risk_per_trade |-> "2% of capital"]

_fallback_scenarios(package, analysis) ==
    LET scenarios == _create_fallback_scenarios(package, analysis)
    IN  [scenarios       |-> scenarios,
         backtest        |-> _simulate_backtest(package, analysis),
         risk_metrics    |-> _calculate_risk_metrics(package, analysis, scenarios),
         position_sizing |-> _recommend_position_size(package, analysis),
         fallback_used   |-> TRUE]

\* an analyst whose failure leaves the run without scenarios
RiskAnalysisWithoutFallback(package, analysis, patterns, response) ==
    LET scenarios == IF response.ok
                     THEN _parse_scenarios(response.text, package, analysis)
                     ELSE << >>
    IN  [scenarios        |-> scenarios,
         backtest         |-> _simulate_backtest(package, analysis),
         risk_metrics     |-> _calculate_risk_metrics(package, analysis, scenarios),
         position_sizing  |-> _recommend_position_size(package, analysis)]

\* RiskScenarioAnalyst.analyze, given what the call of the language model did
RiskAnalysis(package, analysis, patterns, response) ==
    IF ~response.ok THEN _fallback_scenarios(package, analysis)
    ELSE LET scenarios == _parse_scenarios(response.text, package, analysis)
         IN  [scenarios        |-> scenarios,
              backtest         |-> _simulate_backtest(package, analysis),
              risk_metrics     |-> _calculate_risk_metrics(package, analysis, scenarios),
              position_sizing  |-> _recommend_position_size(package, analysis),
              raw_llm_analysis |-> response.text]

(***************************************************************************)
(* Agent 3: VisionPatternRecognition                                       *)
(***************************************************************************)
pattern_keywords ==
    << "head and shoulders", "triangle", "flag", "pennant", "wedge", "double top",
       "double bottom", "cup and handle", "doji", "hammer", "engulfing", "harami",
       "shooting star", "morning star", "evening star" >>

\* keyword.title()
Title(keyword) ==
    CASE keyword = "head and shoulders" -> "Head And Shoulders"
      [] keyword = "triangle"       -> "Triangle"
      [] keyword = "flag"           -> "Flag"
      [] keyword = "pennant"        -> "Pennant"
      [] keyword = "wedge"          -> "Wedge"
      [] keyword = "double top"     -> "Double Top"
      [] keyword = "double bottom"  -> "Double Bottom"
      [] keyword = "cup and handle" -> "Cup And Handle"
      [] keyword = "doji"           -> "Doji"
      [] keyword = "hammer"         -> "Hammer"
      [] keyword = "engulfing"      -> "Engulfing"
      [] keyword = "harami"         -> "Harami"
      [] keyword = "shooting star"  -> "Shooting Star"
      [] keyword = "morning star"   -> "Morning Star"
      [] keyword = "evening star"   -> "Evening Star"

RECURSIVE PatternsFrom(_, _)
PatternsFrom(text, keywords) ==
    IF keywords = << >> THEN << >>
    ELSE (IF Contains(text, Head(keywords))
          THEN << [pattern |-> Title(Head(keywords)), mentioned |-> TRUE] >>
          ELSE << >>)
         \o PatternsFrom(text, Tail(keywords))

_extract_patterns(text) == PatternsFrom(text, pattern_keywords)

_extract_market_structure(text) ==
    IF Contains(text, "bullish") /\ ~Contains(text, "bearish") THEN "BULLISH"
    ELSE IF Contains(text, "bearish") /\ ~Contains(text, "bullish") THEN "BEARISH"
    ELSE IF Contains(text, "neutral") \/ Contains(text, "sideways") THEN "NEUTRAL"
    ELSE "MIXED"

_extract_overall_confidence(text) ==
    LET high_conf     == Count(text, "high confidence") + Count(text, "strong")
        moderate_conf == Count(text, "moderate") + Count(text, "likely")
        low_conf      == Count(text, "low confidence") + Count(text, "uncertain")
    IN  IF high_conf > moderate_conf /\ high_conf > low_conf THEN "HIGH"
        ELSE IF low_conf > moderate_conf /\ low_conf > high_conf THEN "LOW"
        ELSE "MODERATE"

\* key_observations is left out: it is read by no other agent
_parse_vision_response(response) ==
    [raw_analysis     |-> response,
     patterns         |-> _extract_patterns(response),
     market_structure |-> _extract_market_structure(response),
     confidence       |-> _extract_overall_confidence(response)]

\* bias.split()[0]
FirstWord(bias) ==
    IF InBias("STRONG", bias) THEN "STRONG" ELSE bias

_fallback_analysis(package, analysis) ==
    LET bias  == analysis.overall_bias
        trend == analysis.trend_analysis.trend
    IN  [raw_analysis     |-> << "Fallback analysis", bias, trend >>,
         patterns         |->
            IF InBias("BULLISH", bias)
            THEN << [pattern |-> "Bullish Structure", mentioned |-> TRUE,
                     confidence |-> "MODERATE"] >>
            ELSE IF InBias("BEARISH", bias)
            THEN << [pattern |-> "Bearish Structure", mentioned |-> TRUE,
                     confidence |-> "MODERATE"] >>
            ELSE << >>,
         market_structure |-> FirstWord(bias),
         confidence       |-> "MODERATE",
         fallback_used    |-> TRUE]

\* VisionPatternRecognition.analyze_chart, given whether the chart file is
\* there and what the call of the vision model did
PatternAnalysis(package, analysis, chart_exists, response) ==
    IF package.chart_path = "" \/ ~chart_exists
    THEN _fallback_analysis(package, analysis)
    ELSE IF ~response.ok THEN _fallback_analysis(package, analysis)
    ELSE _parse_vision_response(response.text)

(***************************************************************************)
(* Agent 5: ReportWriter                                                   *)
(***************************************************************************)
_fallback_narrative ==
    << "Technical analysis shows mixed signals. Monitor key support and resistance levels for clearer direction. Exercise caution and proper risk management." >>

\* the narrative is the sequence of its non-blank lines
_call_report_llm(response) ==
    IF response.ok THEN response.text ELSE _fallback_narrative

\* index of the first of the largest keys: the element max() returns
RECURSIVE FirstMax(_, _)
FirstMax(keys, i) ==
    IF i = Len(keys) THEN i
    ELSE LET j == FirstMax(keys, i + 1)
         IN  IF keys[i] >= keys[j] THEN i ELSE j

_get_optimal_trade(scenarios) ==
    IF scenarios = << >> THEN << "Wait for clearer setup" >>
    ELSE LET keys == [i \in 1..Len(scenarios) |->
                         IF scenarios[i].confidence # "Low"
                         THEN scenarios[i].rr_ratio ELSE 0]
             best_scenario == scenarios[FirstMax(keys, 1)]
         IN  << best_scenario.scenario, best_scenario.rr_ratio >>

\* the recommendation with BUY decided by the ratio alone
RecommendationByRatio(risk) ==
    LET scenarios == risk.scenarios
        keys == [i \in 1..Len(scenarios) |-> scenarios[i].rr_ratio]
        best == scenarios[FirstMax(keys, 1)]
    IN  IF scenarios = << >> THEN << "WAIT - No clear setup" >>
        ELSE IF best.rr_ratio > 150 THEN << "BUY", best.scenario >>
        ELSE IF best.rr_ratio > 100 THEN << "WATCH", best.scenario >>
        ELSE << "WAIT - Low R:R ratios" >>

_extract_recommendation(risk) ==
    LET scenarios == risk.scenarios
        keys == [i \in 1..Len(scenarios) |-> scenarios[i].rr_ratio]
        best == scenarios[FirstMax(keys, 1)]
    IN  IF scenarios = << >> THEN << "WAIT - No clear setup" >>
        ELSE IF best.confidence = "High" /\ best.rr_ratio > 150
        THEN << "BUY", best.scenario >>
        ELSE IF best.rr_ratio > 100 THEN << "WATCH", best.scenario >>
        ELSE << "WAIT - Low R:R ratios" >>

_generate_key_takeaway(analysis, risk) ==
    LET bias     == analysis.overall_bias
        strength == analysis.strength_score
    IN  IF InBias("STRONG BULLISH", bias) /\ strength > 7000 THEN "Strong bullish setup"
        ELSE IF InBias("BULLISH", bias) THEN "Bullish bias present"
        ELSE IF InBias("STRONG BEARISH", bias) /\ strength > 7000
        THEN "Strong bearish setup"
        ELSE IF InBias("BEARISH", bias) THEN "Bearish undertone"
        ELSE "Neutral/choppy market"

\* the parts of the report text that vary from one report to another
_build_markdown_report(package, analysis, patterns, risk, llm_narrative) ==
    [summary       |-> llm_narrative,
     overall_bias  |-> analysis.overall_bias,
     risk_grade    |-> risk.risk_metrics.risk_grade,
     optimal_trade |-> _get_optimal_trade(risk.scenarios),
     position_size |-> risk.position_sizing.recommended_position,
     key_takeaway  |-> _generate_key_takeaway(analysis, risk)]

\* the first three lines of the Summary section, up to the next heading
RECURSIVE UpToHeading(_)
UpToHeading(lines) ==
    IF lines = << >> \/ Head(lines) = "##" THEN << >>
    ELSE << Head(lines) >> \o UpToHeading(Tail(lines))

_extract_summary(markdown) ==
    LET summary_lines == UpToHeading(markdown.summary)
    IN  SubSeq(summary_lines, 1, Min(3, Len(summary_lines)))

\* ReportWriter.generate_report, given what the call of the language model did
GenerateReport(package, analysis, patterns, risk, response) ==
    LET llm_narrative   == _call_report_llm(response)
        markdown_report == _build_markdown_report(package, analysis, patterns, risk,
                                                  llm_narrative)
    IN  [markdown       |-> markdown_report,
         summary        |-> _extract_summary(markdown_report),
         recommendation |-> _extract_recommendation(risk)]

(***************************************************************************)
(* AIAnalysisCrew.run_analysis                                             *)
(***************************************************************************)
VisionResponses ==
    {LLMFailure,
     LLMText(("bullish" :> 1) @@ ("triangle" :> 1) @@ ("strong" :> 2) @@ ("moderate" :> 1)),
     LLMText(("bullish" :> 1) @@ ("bearish" :> 1) @@ ("doji" :> 1) @@ ("uncertain" :> 1))}

RiskResponses ==
    {LLMFailure,
     LLMText(("risk" :> 1)),
     LLMText(("bullish aggressive" :> 1) @@ ("bullish conservative" :> 1)
             @@ ("conservative" :> 1) @@ ("bearish" :> 1))}

ReportResponses ==
    {LLMFailure,
     LLMText(<< "hook", "structure", "risk", "takeaway" >>),
     LLMText(<< "hook", "##", "structure" >>)}

\* agent 1 with run_analysis going on to agent 2 whatever the status
OrchestrateAndGoOn ==
    /\ pc = "start"
    /\ data_package' =
          IF env.fetch = "ok"
          THEN [metadata      |-> [symbol |-> env.symbol, timeframe |-> env.timeframe,
                                   company_name |-> env.symbol],
                stock_info    |-> [company_name |-> env.symbol],
                latest_candle |-> env.latest_candle,
                indicators    |-> env.indicators,
                chart_path    |-> env.chart_path,
                data_quality  |-> [indicators_count |->
                                       Cardinality(DOMAIN env.indicators)],
                status        |-> "success"]
          ELSE [status |-> "error", error |-> "No data available",
                symbol |-> env.symbol, timeframe |-> env.timeframe]
    /\ pc' = "agent_2"
    /\ UNCHANGED <<env, technical_analysis, pattern_analysis, risk_analysis, report,
                   result>>
    /\ UNCHANGED others

agent_1_orchestrate ==
    /\ pc = "start"
    /\ IF env.fetch = "ok"
       THEN /\ data_package' =
                  [metadata      |-> [symbol |-> env.symbol, timeframe |-> env.timeframe,
                                      company_name |-> env.symbol],
                   stock_info    |-> [company_name |-> env.symbol],
                   latest_candle |-> env.latest_candle,
                   indicators    |-> env.indicators,
                   chart_path    |-> env.chart_path,
                   data_quality  |-> [indicators_count |->
                                          Cardinality(DOMAIN env.indicators)],
                   status        |-> "success"]
            /\ pc' = "agent_2"
            /\ UNCHANGED result
       ELSE /\ data_package' = [status |-> "error", error |-> "No data available",
                                symbol |-> env.symbol, timeframe |-> env.timeframe]
            /\ result' = [status |-> "error", error |-> "No data available",
                          symbol |-> env.symbol, timeframe |-> env.timeframe]
            /\ pc' = "done"
    /\ UNCHANGED <<env, technical_analysis, pattern_analysis, risk_analysis, report>>
    /\ UNCHANGED others

\* data_package['indicators'] of a package without indicators raises, and
\* the handler of run_analysis returns the error
agent_2_analyze ==
    /\ pc = "agent_2"
    /\ IF {"indicators", "latest_candle"} \subseteq DOMAIN data_package
       THEN /\ technical_analysis' = TechnicalAnalysis(data_package)
            /\ pc' = "agent_3"
            /\ UNCHANGED result
       ELSE /\ result' = [status |-> "error", error |-> "KeyError",
                          traceback |-> "Traceback",
                          symbol |-> env.symbol, timeframe |-> env.timeframe]
            /\ pc' = "done"
            /\ UNCHANGED technical_analysis
    /\ UNCHANGED <<env, data_package, pattern_analysis, risk_analysis, report>>
    /\ UNCHANGED others

agent_3_analyze_chart ==
    /\ pc = "agent_3"
    /\ \E response \in VisionResponses :
          pattern_analysis' = PatternAnalysis(data_package, technical_analysis,
                                              env.chart_exists, response)
    /\ pc' = "agent_4"
    /\ UNCHANGED <<env, data_package, technical_analysis, risk_analysis, report, result>>
    /\ UNCHANGED others

agent_4_analyze ==
    /\ pc = "agent_4"
    /\ \E response \in RiskResponses :
          risk_analysis' = RiskAnalysis(data_package, technical_analysis,
                                        pattern_analysis, response)
    /\ pc' = "agent_5"
    /\ UNCHANGED <<env, data_package, technical_analysis, pattern_analysis, report, result>>
    /\ UNCHANGED others

agent_5_generate_report ==
    /\ pc = "agent_5"
    /\ \E response \in ReportResponses :
          report' = GenerateReport(data_package, technical_analysis, pattern_analysis,
                                   risk_analysis, response)
    /\ pc' = "compile"
    /\ UNCHANGED <<env, data_package, technical_analysis, pattern_analysis,
                   risk_analysis, result>>
    /\ UNCHANGED others

compile_result ==
    /\ pc = "compile"
    /\ result' =
          [status        |-> "success",
           symbol        |-> env.symbol,
           timeframe     |-> env.timeframe,
           stock_info    |-> data_package.stock_info,
           latest_candle |-> data_package.latest_candle,
           chart_path    |-> data_package.chart_path,
           technical_analysis |->
              [overall_bias   |-> technical_analysis.overall_bias,
               strength_score |-> technical_analysis.strength_score,
               trend          |-> technical_analysis.trend_analysis.trend,
               momentum       |-> technical_analysis.momentum_analysis.momentum,
               key_levels     |-> technical_analysis.key_levels],
           pattern_analysis |->
              [market_structure |-> pattern_analysis.market_structure,
               patterns         |-> pattern_analysis.patterns,
               confidence       |-> pattern_analysis.confidence],
           risk_analysis |->
              [scenarios       |-> risk_analysis.scenarios,
               backtest        |-> risk_analysis.backtest,
               risk_metrics    |-> risk_analysis.risk_metrics,
               position_sizing |-> risk_analysis.position_sizing],
           report |->
              [markdown       |-> report.markdown,
               summary        |-> report.summary,
               recommendation |-> report.recommendation],
           agents_used   |-> 5,
           data_quality  |-> data_package.data_quality]
    /\ pc' = "done"
    /\ UNCHANGED <<env, data_package, technical_analysis, pattern_analysis,
                   risk_analysis, report>>
    /\ UNCHANGED others

\* the state of what a run of run_analysis alone does not use
OthersUnused ==
    /\ http_response = NoValue
    /\ calls = NoValue
    /\ frames = NoValue
    /\ fetcher = NoValue
    /\ now = 0
    /\ call = NoValue
    /\ stored = NoValue

(***************************************************************************)
(* Inputs                                                                  *)
(***************************************************************************)
\* close of the latest candle, in cents
Close == 10000

\* largest distance, in cents, of an enumerated level from the close
MaxOffset == 2

\* a dict with the key, one for each value, or without it
Opt(key, values) == {EmptyDict} \cup {key :> v : v \in values}

\* the dicts made of one part of each set
Combine(A, B) == {a @@ b : a \in A, b \in B}

\* an indicator family: absent, or one of the dicts
Family(key, dicts) == {EmptyDict} \cup {key :> d : d \in dicts}

Package(indicators) ==
    [status        |-> "success",
     latest_candle |-> [close |-> Close, volume |-> 1000],
     indicators    |-> indicators]

\* snapshots over the fields the trend, momentum and confluence checks read
MovingAverages ==
    Combine(Combine(Opt("price_vs_SMA50", {-2, 0, 3}), Opt("price_vs_SMA200", {-2, 3})),
            {EmptyDict} \cup {("SMA_50" :> p[1]) @@ ("SMA_200" :> p[2]) :
                                 p \in {<<9900, 9500>>, <<9500, 9900>>, <<9900, 9900>>}})

Rsi ==
    {[value |-> 25, condition |-> "OVERSOLD"], [value |-> 50, condition |-> "NEUTRAL"],
     [value |-> 40, condition |-> "NEUTRAL"], [value |-> 60, condition |-> "NEUTRAL"],
     [value |-> 75, condition |-> "OVERBOUGHT"], [value |-> 60], [condition |-> "OVERSOLD"]}

ScoringSnapshots ==
    Combine(Family("moving_averages", MovingAverages),
    Combine(Family("supertrend", {[signal |-> c] : c \in {"BULLISH", "BEARISH", "NEUTRAL"}}),
    Combine(Family("ichimoku", {[price_vs_cloud |-> c] : c \in {"ABOVE", "BELOW"}}),
    Combine(Family("rsi", Rsi),
    Combine(Family("macd", {[signal |-> c] : c \in {"BULLISH", "BEARISH"}}),
    Combine(Family("stochastic", {[condition |-> c] :
                                     c \in {"OVERSOLD", "OVERBOUGHT"}}),
            {EmptyDict, "adx" :> [value |-> 30, strength |-> "STRONG"]}))))))

\* the packages handed to TechnicalAnalyst.analyze: one without indicators,
\* and one for each snapshot
TechPackages ==
    {[status |-> "success", latest_candle |-> [close |-> Close, volume |-> 1000]]}
    \cup {Package(i) : i \in ScoringSnapshots}

\* snapshots over the fields the level extractor reads
LevelPrices == (Close - MaxOffset)..(Close + MaxOffset)

Retracements ==
    {<< <<"0.0", a>>, <<"0.5", b>> >> : a \in LevelPrices, b \in LevelPrices}

PivotPoints ==
    Combine(Combine(Opt("r1", LevelPrices), Opt("r2", LevelPrices)),
            Combine(Opt("s1", LevelPrices), Opt("s2", LevelPrices)))

LevelSnapshots ==
    Combine(Family("fibonacci", {[retracements |-> r] : r \in Retracements}),
            Family("pivot_points", PivotPoints))

LevelPackages == {Package(i) : i \in LevelSnapshots}

NoEnv == [symbol |-> "RELIANCE", timeframe |-> "1d"]

InitTech ==
    /\ pc = "agent_2"
    /\ env = NoEnv
    /\ data_package \in TechPackages
    /\ technical_analysis = NoValue
    /\ pattern_analysis = NoValue
    /\ risk_analysis = NoValue
    /\ report = NoValue
    /\ result = NoValue
    /\ OthersUnused

NextTech == agent_2_analyze

SpecTech == InitTech /\ [][NextTech]_vars

InitLevels ==
    /\ pc = "agent_2"
    /\ env = NoEnv
    /\ data_package \in LevelPackages
    /\ technical_analysis = NoValue
    /\ pattern_analysis = NoValue
    /\ risk_analysis = NoValue
    /\ report = NoValue
    /\ result = NoValue
    /\ OthersUnused

NextLevels == agent_2_analyze

SpecLevels == InitLevels /\ [][NextLevels]_vars

(***************************************************************************)
(* Properties of TechnicalAnalyst.analyze (SpecTech)                       *)
(***************************************************************************)
Analysed == pc = "agent_3"

IsError(r) == "status" \in DOMAIN r /\ r.status = "error"

Snapshot == data_package.indicators

\* C2: the strength_score that TechnicalAnalyst.analyze returns lies in
\* [0, 100] for every snapshot (in hundredths: 0..10000).
C2_StrengthInRange ==
    Analysed => technical_analysis.strength_score \in 0..10000

\* the largest score there is, 76.67: trend 5, momentum 2.5, one confluence
C2_Witness ==
    /\ Analysed
    /\ technical_analysis.trend_analysis.score = 5
    /\ technical_analysis.momentum_analysis.score = 5
    /\ technical_analysis.strength_score = 7667

\* C6: a snapshot that is absent or empty makes the analysis fail with one
\* structured error and no bias, strength or scenario, and nothing else
\* makes it fail.
C6_AbsentOrEmptyFails ==
    pc # "agent_2" =>
        LET gone == "indicators" \notin DOMAIN data_package \/ DOMAIN Snapshot = {}
        IN  /\ gone => IsError(result) /\ DOMAIN technical_analysis = {}
            /\ IsError(result) => gone

\* the empty snapshot is analysed like any other: STRONG BEARISH, 40.0
C6_EmptyAnalysed ==
    /\ Analysed
    /\ DOMAIN Snapshot = {}
    /\ technical_analysis.overall_bias = "STRONG BEARISH"
    /\ technical_analysis.strength_score = 4000

TrendFields ==
    {<<"moving_averages", "price_vs_SMA50">>, <<"moving_averages", "price_vs_SMA200">>,
     <<"moving_averages", "SMA_50">>, <<"moving_averages", "SMA_200">>,
     <<"supertrend", "signal">>, <<"ichimoku", "price_vs_cloud">>}

Has(indicators, field) ==
    field[1] \in DOMAIN indicators /\ field[2] \in DOMAIN indicators[field[1]]

\* C8: a trend field that is missing contributes 0 to the trend score, and a
\* snapshot with none of the trend fields has the trend score 0.
C8_MissingTrendFieldIsNeutral ==
    Analysed =>
        LET c == TrendChecks(Snapshot)
            Part(field, contribution) == IF Has(Snapshot, field) THEN contribution ELSE 0
        IN  technical_analysis.trend_analysis.score =
                Part(<<"moving_averages", "price_vs_SMA50">>, c.price_vs_SMA50)
                + Part(<<"moving_averages", "price_vs_SMA200">>, c.price_vs_SMA200)
                + Part(<<"moving_averages", "SMA_50">>, c.cross)
                + Part(<<"supertrend", "signal">>, c.supertrend)
                + Part(<<"ichimoku", "price_vs_cloud">>, c.ichimoku)

\* no trend field at all, and the trend score is -3
C8_NoTrendFieldScoresMinusThree ==
    /\ Analysed
    /\ \A field \in TrendFields : ~Has(Snapshot, field)
    /\ technical_analysis.trend_analysis.score = -3

\* C9 as stated: some snapshot makes _identify_confluences return both the
\* bullish and the bearish confluence.
C9_BothConfluencesPossible ==
    Analysed =>
        \E indicators \in ScoringSnapshots : Len(_identify_confluences(indicators)) = 2

\* C9, amended: the bullish and the bearish count of _identify_confluences sum
\* to at most 4, so at most one of them reaches 3 and at most one confluence
\* is returned.
C9_ConfluencesExclusive ==
    Analysed =>
        LET n == ConfluenceCounts(Snapshot)
        IN  /\ n.bullish + n.bearish <= 4
            /\ ~(n.bullish >= CONFLUENCE /\ n.bearish >= CONFLUENCE)
            /\ Len(technical_analysis.signal_confluence) <= 1

\* a bullish confluence of three with the fourth indicator bearish
C9_Witness ==
    /\ Analysed
    /\ ConfluenceCounts(Snapshot).bullish = 3
    /\ ConfluenceCounts(Snapshot).bearish = 1
    /\ Len(technical_analysis.signal_confluence) = 1

\* the snapshot without one of its families, or without one field of one
RemoveFamily(indicators, family) ==
    [k \in DOMAIN indicators \ {family} |-> indicators[k]]

RemoveField(indicators, family, field) ==
    [indicators EXCEPT
        ![family] = [k \in DOMAIN indicators[family] \ {field} |-> indicators[family][k]]]

\* P holds of the snapshot without any one of its families or fields
ForEachReduction(indicators, P(_)) ==
    \A family \in DOMAIN indicators :
        /\ P(RemoveFamily(indicators, family))
        /\ \A field \in DOMAIN indicators[family] :
              P(RemoveField(indicators, family, field))

\* the strength_score of the analysis of a snapshot
StrengthOf(indicators) ==
    _calculate_strength_score(
        [trend_analysis    |-> [score |-> _analyze_trend(indicators).score],
         momentum_analysis |-> [score |-> _analyze_momentum(indicators).score],
         signal_confluence |-> _identify_confluences(indicators)])

\* C7 as stated: the snapshot without one field or one family never has a
\* larger strength_score than the snapshot itself.
C7_RemovalNeverRaises ==
    Analysed =>
        LET NotLarger(reduced) ==
                StrengthOf(reduced) <= technical_analysis.strength_score
        IN  ForEachReduction(Snapshot, NotLarger)

\* the families that the trend, momentum and confluence checks read
ScoredFamilies ==
    {"moving_averages", "supertrend", "ichimoku", "rsi", "macd", "stochastic"}

\* C7, amended: the snapshot without one field or one family is analysed
\* without failure, its strength_score lies in [0, 100], it has no confluence
\* the snapshot itself has not, and without a family that no check reads the
\* score is the same; the score itself may be larger as well as smaller.
C7_RemovalKeepsRange ==
    Analysed =>
        LET InRange(reduced) ==
                /\ StrengthOf(reduced) \in 0..10000
                /\ Len(_identify_confluences(reduced))
                      <= Len(technical_analysis.signal_confluence)
        IN  /\ ForEachReduction(Snapshot, InRange)
            /\ \A family \in DOMAIN Snapshot \ ScoredFamilies :
                  StrengthOf(RemoveFamily(Snapshot, family))
                     = technical_analysis.strength_score

\* a bullish snapshot below the Ichimoku cloud: without the cloud the score
\* is larger
C7_Witness ==
    /\ Analysed
    /\ technical_analysis.trend_analysis.score > 0
    /\ Has(Snapshot, <<"ichimoku", "price_vs_cloud">>)
    /\ Snapshot.ichimoku.price_vs_cloud = "BELOW"
    /\ "adx" \in DOMAIN Snapshot
    /\ StrengthOf(RemoveFamily(Snapshot, "ichimoku")) > technical_analysis.strength_score

(***************************************************************************)
(* Properties of the level extractor (SpecLevels)                          *)
(***************************************************************************)
Levels == technical_analysis.support_resistance

\* C3: every resistance price is strictly above the close and every support
\* price strictly below it, also for values equal to the close and for
\* missing pivot fields.
C3_LevelsStrictlyApart ==
    Analysed =>
        /\ \A i \in DOMAIN Levels.all_levels.resistance :
              Levels.all_levels.resistance[i][2] > Levels.current_price
        /\ \A i \in DOMAIN Levels.all_levels.support :
              Levels.all_levels.support[i][2] < Levels.current_price

\* a retracement at the close is the nearest support
C3_RetracementAtCloseIsSupport ==
    /\ Analysed
    /\ Levels.nearest_support # << >>
    /\ Levels.nearest_support[1] = <<"Fibonacci 0.0", Levels.current_price>>

IsPivot(entry) == entry[1] \in {"Pivot R1", "Pivot R2", "Pivot S1", "Pivot S2"}

\* nearest holds the entries of candidates that are nearest to the price,
\* nearest first, entries of one price in the order they have in candidates
NearestOf(nearest, candidates, descending) ==
    LET Pos(entry) == CHOOSE j \in DOMAIN candidates : candidates[j] = entry
        Nearer(a, b) == IF descending THEN a[2] > b[2] ELSE a[2] < b[2]
        Kept == {nearest[i] : i \in DOMAIN nearest}
    IN  /\ Len(nearest) = Min(3, Len(candidates))
        /\ \A i \in DOMAIN nearest : \E j \in DOMAIN candidates : candidates[j] = nearest[i]
        /\ \A i, j \in DOMAIN nearest :
              i < j => \/ Nearer(nearest[i], nearest[j])
                       \/ /\ nearest[i][2] = nearest[j][2]
                          /\ Pos(nearest[i]) < Pos(nearest[j])
                          /\ ~(IsPivot(nearest[i]) /\ ~IsPivot(nearest[j]))
        /\ \A j \in DOMAIN candidates :
              candidates[j] \notin Kept =>
                 \A i \in DOMAIN nearest :
                    \/ Nearer(nearest[i], candidates[j])
                    \/ /\ nearest[i][2] = candidates[j][2]
                       /\ Pos(nearest[i]) < j

\* C10: nearest_resistance and nearest_support hold at most 3 entries, the
\* 3 nearest of their side, nearest first (resistance ascending, support
\* descending), entries of equal price in insertion order (Fibonacci before
\* pivot).
C10_NearestThreeStable ==
    Analysed =>
        LET collected == CollectLevels(Snapshot, Levels.current_price)
        IN  /\ Len(Levels.nearest_resistance) <= 3
            /\ Len(Levels.nearest_support) <= 3
            /\ NearestOf(Levels.nearest_resistance, collected.resistance, FALSE)
            /\ NearestOf(Levels.nearest_support, collected.support, TRUE)

\* four resistance levels, the two nearest of one price: the retracement and
\* then the pivot, and the farthest is cut
C10_Witness ==
    /\ Analysed
    /\ Len(Levels.all_levels.resistance) = 4
    /\ Len(Levels.nearest_resistance) = 3
    /\ Levels.nearest_resistance[1][2] = Levels.nearest_resistance[2][2]
    /\ ~IsPivot(Levels.nearest_resistance[1])
    /\ IsPivot(Levels.nearest_resistance[2])
    /\ Levels.all_levels.resistance[4][2] > Levels.nearest_resistance[3][2]

\* the entries of a list of levels
Entries(levels) == {levels[i] : i \in DOMAIN levels}

\* the pivot fields the level extractor reads, with the labels it gives them
PivotLabel ==
    ("r1" :> "Pivot R1") @@ ("r2" :> "Pivot R2") @@ ("s1" :> "Pivot S1") @@ ("s2" :> "Pivot S2")

\* the retracements and the pivot dict of the snapshot
FibRetraces == Get(Get(Snapshot, "fibonacci", EmptyDict), "retracements", << >>)

Pivot == Get(Snapshot, "pivot_points", EmptyDict)

\* C11 as stated: every retracement and every pivot R1, R2, S1, S2 above the
\* close is a resistance level and every one below the close is a support
\* level, whatever its name.
C11_PartitionByPriceAlone ==
    Analysed =>
        LET close == Levels.current_price
            Placed(entry) ==
                /\ entry[2] > close => entry \in Entries(Levels.all_levels.resistance)
                /\ entry[2] < close => entry \in Entries(Levels.all_levels.support)
        IN  /\ \A i \in DOMAIN FibRetraces :
                  Placed(<< "Fibonacci " \o FibRetraces[i][1], FibRetraces[i][2] >>)
            /\ \A key \in DOMAIN PivotLabel \cap DOMAIN Pivot :
                  Placed(<< PivotLabel[key], Pivot[key] >>)

\* C11, amended: a retracement above the close is a resistance level and any
\* other retracement a support level; R1 and R2 are resistance levels when
\* above the close and are left out otherwise; S1 and S2 (0 when missing) are
\* support levels when below the close and are left out otherwise; the lists
\* hold nothing else.
C11_PivotsKeepTheirSide ==
    Analysed =>
        LET close      == Levels.current_price
            resistance == Entries(Levels.all_levels.resistance)
            support    == Entries(Levels.all_levels.support)
            Fib(i)     == << "Fibonacci " \o FibRetraces[i][1], FibRetraces[i][2] >>
            Piv(key)   == << PivotLabel[key], Get(Pivot, key, 0) >>
            Labelled(label) == {e \in resistance \cup support : e[1] = label}
        IN  /\ \A i \in DOMAIN FibRetraces :
                  IF FibRetraces[i][2] > close
                  THEN Fib(i) \in resistance /\ Fib(i) \notin support
                  ELSE Fib(i) \in support /\ Fib(i) \notin resistance
            /\ \A key \in {"r1", "r2"} :
                  IF Get(Pivot, key, 0) > close
                  THEN Piv(key) \in resistance /\ Piv(key) \notin support
                  ELSE Labelled(PivotLabel[key]) = {}
            /\ \A key \in {"s1", "s2"} :
                  IF Get(Pivot, key, 0) < close
                  THEN Piv(key) \in support /\ Piv(key) \notin resistance
                  ELSE Labelled(PivotLabel[key]) = {}
            /\ \A e \in resistance \cup support :
                  \/ \E i \in DOMAIN FibRetraces : e = Fib(i)
                  \/ \E key \in DOMAIN PivotLabel : e = Piv(key)

\* an R1 below the close and an S1 above it: neither is in any list
C11_Witness ==
    /\ Analysed
    /\ {"r1", "s1"} \subseteq DOMAIN Pivot
    /\ Pivot.r1 < Levels.current_price
    /\ Pivot.s1 > Levels.current_price
    /\ \A e \in Entries(Levels.all_levels.resistance) \cup Entries(Levels.all_levels.support) :
          e[1] \notin {"Pivot R1", "Pivot S1"}

(***************************************************************************)
(* The whole run (Spec)                                                    *)
(***************************************************************************)
\* one snapshot of the scored fields for each overall_bias; the last, the
\* empty one, is STRONG BEARISH
BiasProfiles ==
    {[moving_averages |-> [price_vs_SMA50 |-> 2, price_vs_SMA200 |-> 3,
                           SMA_50 |-> 9900, SMA_200 |-> 9500],
      supertrend |-> [signal |-> "BULLISH"], ichimoku |-> [price_vs_cloud |-> "ABOVE"],
      rsi |-> [value |-> 60, condition |-> "NEUTRAL"], macd |-> [signal |-> "BULLISH"]],
     [moving_averages |-> [price_vs_SMA50 |-> 2, price_vs_SMA200 |-> -1,
                           SMA_50 |-> 9500, SMA_200 |-> 9900],
      supertrend |-> [signal |-> "BULLISH"], ichimoku |-> [price_vs_cloud |-> "ABOVE"],
      rsi |-> [value |-> 60, condition |-> "NEUTRAL"], macd |-> [signal |-> "BULLISH"]],
     [moving_averages |-> [price_vs_SMA50 |-> 2, price_vs_SMA200 |-> -1,
                           SMA_50 |-> 9500, SMA_200 |-> 9900],
      supertrend |-> [signal |-> "BULLISH"], ichimoku |-> [price_vs_cloud |-> "ABOVE"],
      rsi |-> [value |-> 60, condition |-> "NEUTRAL"], macd |-> [signal |-> "BEARISH"]],
     [moving_averages |-> [price_vs_SMA50 |-> -2, price_vs_SMA200 |-> 3,
                           SMA_50 |-> 9900, SMA_200 |-> 9500],
      supertrend |-> [signal |-> "BEARISH"], ichimoku |-> [price_vs_cloud |-> "BELOW"],
      rsi |-> [value |-> 40, condition |-> "NEUTRAL"], macd |-> [signal |-> "BEARISH"]],
     EmptyDict}

\* ATR: missing, and values in cents
AtrParts == Family("atr", {[value |-> a, percentage |-> p] :
                              a \in {0, 200, 1000}, p \in {1, 5}})

\* levels: none; retracements around the close; a retracement at the close;
\* pivots one cent from the close; support 95.00 and resistance 110.00
LevelParts ==
    {EmptyDict,
     [fibonacci |-> [retracements |-> << <<"0.0", Close + 300>>, <<"0.5", Close + 100>>,
                                         <<"1.0", Close - 100>> >>]],
     [fibonacci |-> [retracements |-> << <<"0.0", Close>>, <<"1.0", Close - 400>> >>],
      pivot_points |-> [pivot |-> Close - 50, r1 |-> Close + 100, r2 |-> Close + 200,
                        s1 |-> Close - 100, s2 |-> Close - 200]],
     [pivot_points |-> [pivot |-> Close, r1 |-> Close + 1, r2 |-> Close + 50,
                        s1 |-> Close - 1, s2 |-> Close - 50]],
     [fibonacci |-> [retracements |-> << <<"0.0", Close + 1000>>,
                                         <<"1.0", Close - 500>> >>]]}

Envs ==
    {[fetch |-> "fail", symbol |-> "RELIANCE", timeframe |-> "1d"]}
    \cup {[fetch |-> "ok", symbol |-> "RELIANCE", timeframe |-> "1d",
           latest_candle |-> [close |-> Close, volume |-> 1000],
           indicators    |-> i,
           chart_path    |-> "chart.png",
           chart_exists  |-> c] :
             i \in Combine(BiasProfiles, Combine(AtrParts, LevelParts)),
             c \in BOOLEAN}

Init ==
    /\ pc = "start"
    /\ env \in Envs
    /\ data_package = NoValue
    /\ technical_analysis = NoValue
    /\ pattern_analysis = NoValue
    /\ risk_analysis = NoValue
    /\ report = NoValue
    /\ result = NoValue
    /\ OthersUnused

Next ==
    \/ agent_1_orchestrate
    \/ agent_2_analyze
    \/ agent_3_analyze_chart
    \/ agent_4_analyze
    \/ agent_5_generate_report
    \/ compile_result

Spec == Init /\ [][Next]_vars

(***************************************************************************)
(* Properties of the scenarios and of the whole run (Spec)                 *)
(***************************************************************************)
RiskDone == pc \in {"agent_5", "compile", "done"} /\ DOMAIN risk_analysis # {}

IsBullish(scenario) ==
    scenario.scenario \in {"Bullish (Aggressive)", "Bullish (Conservative)"}

\* target > entry > stop of a bullish, target < entry < stop of a bearish one
ValidGeometry(scenario) ==
    IF IsBullish(scenario)
    THEN scenario.target > scenario.entry /\ scenario.entry > scenario.stop
    ELSE scenario.target < scenario.entry /\ scenario.entry < scenario.stop

\* C1: no scenario of _create_fallback_scenarios has a negative rr_ratio, and
\* a scenario whose prices are not in the order of its direction has the
\* rr_ratio 0.
C1_RiskRewardNeverNegative ==
    RiskDone =>
        \A i \in DOMAIN risk_analysis.scenarios :
            LET scenario == risk_analysis.scenarios[i]
            IN  /\ scenario.rr_ratio >= 0
                /\ ~ValidGeometry(scenario) => scenario.rr_ratio = 0

\* a Bullish (Conservative) scenario entered above its target: the rr_ratio
\* is negative
C1_EntryAboveTarget ==
    /\ RiskDone
    /\ \E i \in DOMAIN risk_analysis.scenarios :
          LET scenario == risk_analysis.scenarios[i]
          IN  /\ scenario.scenario = "Bullish (Conservative)"
              /\ scenario.entry > scenario.target
              /\ scenario.entry > scenario.stop
              /\ scenario.rr_ratio < 0

\* C4: the scenarios, risk_metrics and position_sizing that
\* RiskScenarioAnalyst.analyze returns are those of the deterministic path,
\* whatever text the language model returned and whether or not it failed.
C4_ScenariosIgnoreNarrative ==
    RiskDone =>
        LET scenarios == _create_fallback_scenarios(data_package, technical_analysis)
        IN  /\ risk_analysis.scenarios = scenarios
            /\ risk_analysis.risk_metrics =
                  _calculate_risk_metrics(data_package, technical_analysis, scenarios)
            /\ risk_analysis.position_sizing =
                  _recommend_position_size(data_package, technical_analysis)

\* the language model answered and its text names all three scenarios
C4_Witness ==
    /\ RiskDone
    /\ "raw_llm_analysis" \in DOMAIN risk_analysis
    /\ Contains(risk_analysis.raw_llm_analysis, "bullish aggressive")
    /\ Contains(risk_analysis.raw_llm_analysis, "conservative")
    /\ Contains(risk_analysis.raw_llm_analysis, "bearish")
    /\ Len(risk_analysis.scenarios) = 3

\* C5: a run whose agent 1 succeeded returns 'success' with scenarios,
\* whichever calls of a language model failed.
C5_LLMFailureNeverFails ==
    (pc = "done" /\ data_package.status = "success") =>
        /\ result.status = "success"
        /\ result.risk_analysis.scenarios # << >>

\* the chart is there and the vision, risk and report models all failed
C5_Witness ==
    /\ pc = "done"
    /\ data_package.status = "success"
    /\ env.chart_exists
    /\ "fallback_used" \in DOMAIN pattern_analysis
    /\ "fallback_used" \in DOMAIN risk_analysis
    /\ report.markdown.summary = _fallback_narrative
    /\ result.status = "success"

\* the scenarios of the run with the given name
Named(name) ==
    {scenario \in {risk_analysis.scenarios[i] : i \in DOMAIN risk_analysis.scenarios} :
        scenario.scenario = name}

\* C12: with support / resistance the first entry of nearest_support /
\* nearest_resistance, or 95% / 105% of the price when the list is empty,
\* Bullish (Aggressive) is {price, support, resistance}, Bullish (Conservative)
\* is {support + 0.5 ATR, support - ATR, resistance}, the Bearish scenario is
\* {price, resistance + ATR, support}, each rounded to the cent, and rr_ratio
\* is reward / risk rounded to 2 decimals where the risk is positive; for
\* price 100, ATR 2, support 95, resistance 110 and bias BULLISH the rr_ratios
\* are 2.0, 4.67 and 0.42.  Prices are computed in 1/SCALE cents.
C12_ScenarioFormulas ==
    RiskDone =>
        LET close   == data_package.latest_candle.close
            atr_dict == Get(data_package.indicators, "atr", EmptyDict)
            nearest_support    == technical_analysis.support_resistance.nearest_support
            nearest_resistance == technical_analysis.support_resistance.nearest_resistance
            price   == close * SCALE
            atr     == IF "value" \in DOMAIN atr_dict THEN atr_dict.value * SCALE
                       ELSE 2 * close
            support == IF nearest_support # << >> THEN nearest_support[1][2] * SCALE
                       ELSE 95 * close
            resistance == IF nearest_resistance # << >> THEN nearest_resistance[1][2] * SCALE
                          ELSE 105 * close
            Cents(x) == RoundHalfEven(x, SCALE)
            Is(scenario, entry, stop, target, reward, risk) ==
                /\ scenario.entry = Cents(entry)
                /\ scenario.stop = Cents(stop)
                /\ scenario.target = Cents(target)
                /\ risk > 0 => scenario.rr_ratio = RoundHalfEven(100 * reward, risk)
            Rr(name) == {scenario.rr_ratio : scenario \in Named(name)}
        IN  /\ \A scenario \in Named("Bullish (Aggressive)") :
                  Is(scenario, price, support, resistance,
                     resistance - price, price - support)
            /\ \A scenario \in Named("Bullish (Conservative)") :
                  Is(scenario, support + atr \div 2, support - atr, resistance,
                     resistance - (support + atr \div 2), (support + atr \div 2) - (support - atr))
            /\ \A scenario \in Named("Bearish (Counter-trend)") \cup Named("Bearish (Aggressive)") :
                  Is(scenario, price, resistance + atr, support,
                     price - support, (resistance + atr) - price)
            /\ (/\ close = 10000 /\ atr = 200 * SCALE
                /\ support = 9500 * SCALE /\ resistance = 11000 * SCALE
                /\ technical_analysis.overall_bias = "BULLISH")
               => /\ Rr("Bullish (Aggressive)") = {200}
                  /\ Rr("Bullish (Conservative)") = {467}
                  /\ Rr("Bearish (Counter-trend)") = {42}

\* the example: price 100, ATR 2, support 95, resistance 110, bias BULLISH
C12_Witness ==
    /\ RiskDone
    /\ data_package.latest_candle.close = 10000
    /\ "atr" \in DOMAIN data_package.indicators
    /\ data_package.indicators.atr.value = 200
    /\ technical_analysis.support_resistance.nearest_support[1][2] = 9500
    /\ technical_analysis.support_resistance.nearest_resistance[1][2] = 11000
    /\ technical_analysis.overall_bias = "BULLISH"
    /\ Len(risk_analysis.scenarios) = 3
    /\ risk_analysis.scenarios[2].entry = 9600
    /\ risk_analysis.scenarios[2].stop = 9300
    /\ risk_analysis.scenarios[2].rr_ratio = 467

\* the names and the confidences of the scenarios, in their order
ScenarioNames == [i \in DOMAIN risk_analysis.scenarios |-> risk_analysis.scenarios[i].scenario]

Confidences == [i \in DOMAIN risk_analysis.scenarios |-> risk_analysis.scenarios[i].confidence]

\* C13: the scenario list is never empty and ends with its only Bearish
\* scenario; Bullish (Aggressive) and Bullish (Conservative) precede it, in
\* this order, exactly when the bias is BULLISH or STRONG BULLISH; the Bearish
\* scenario is Counter-trend then and Aggressive for every other bias.
C13_ScenarioList ==
    RiskDone =>
        IF technical_analysis.overall_bias \in {"BULLISH", "STRONG BULLISH"}
        THEN ScenarioNames = << "Bullish (Aggressive)", "Bullish (Conservative)",
                                "Bearish (Counter-trend)" >>
        ELSE ScenarioNames = << "Bearish (Aggressive)" >>

\* a NEUTRAL bias: the Bearish (Aggressive) scenario alone
C13_Witness ==
    /\ RiskDone
    /\ technical_analysis.overall_bias = "NEUTRAL"
    /\ ScenarioNames = << "Bearish (Aggressive)" >>

\* C14: the confidences are a function of the bias alone, whatever the
\* prices, the ATR and the rr_ratios: a scenario in the direction of a STRONG
\* bias has High or Moderate, every other scenario Low or Moderate.
C14_ConfidenceByBias ==
    RiskDone =>
        LET bias == technical_analysis.overall_bias
            Matches(i) == \/ bias = "STRONG BULLISH" /\ IsBullish(risk_analysis.scenarios[i])
                          \/ bias = "STRONG BEARISH" /\ ~IsBullish(risk_analysis.scenarios[i])
        IN  /\ Confidences =
                  CASE bias = "STRONG BULLISH" -> << "Moderate", "High", "Low" >>
                    [] bias = "BULLISH"        -> << "Low", "Moderate", "Low" >>
                    [] bias = "NEUTRAL"        -> << "Low" >>
                    [] bias = "BEARISH"        -> << "Moderate" >>
                    [] bias = "STRONG BEARISH" -> << "Moderate" >>
            /\ \A i \in DOMAIN Confidences :
                  IF Matches(i) THEN Confidences[i] \in {"High", "Moderate"}
                  ELSE Confidences[i] \in {"Low", "Moderate"}

\* a STRONG BULLISH bias: the Bullish (Conservative) scenario has a negative
\* rr_ratio and the confidence High, the Bullish (Aggressive) one a larger
\* rr_ratio and the confidence Moderate
C14_Witness ==
    /\ RiskDone
    /\ technical_analysis.overall_bias = "STRONG BULLISH"
    /\ risk_analysis.scenarios[2].rr_ratio < 0
    /\ risk_analysis.scenarios[2].confidence = "High"
    /\ risk_analysis.scenarios[1].rr_ratio > 0
    /\ risk_analysis.scenarios[1].confidence = "Moderate"

\* C15: average_rr_ratio is the mean, rounded to 2 decimals, of the rr_ratios
\* that are greater than 0 (within half a hundredth of the exact mean), and 0
\* when no rr_ratio is greater than 0.
C15_MeanOfPositive ==
    RiskDone =>
        LET Positive(scenario) == scenario.rr_ratio > 0
            positive == SelectSeq(risk_analysis.scenarios, Positive)
            total    == SumRR([i \in DOMAIN positive |-> positive[i].rr_ratio])
            n        == Len(positive)
            average  == risk_analysis.risk_metrics.average_rr_ratio
        IN  IF n = 0 THEN average = 0
            ELSE 2 * Abs(average * n - total) <= n

\* three scenarios, one with the rr_ratio 0 and one with a negative one: the
\* average is the rr_ratio of the third
C15_Witness ==
    /\ RiskDone
    /\ Len(risk_analysis.scenarios) = 3
    /\ \E i, j, k \in DOMAIN risk_analysis.scenarios :
          /\ risk_analysis.scenarios[i].rr_ratio = 0
          /\ risk_analysis.scenarios[j].rr_ratio < 0
          /\ risk_analysis.scenarios[k].rr_ratio > 0
          /\ risk_analysis.risk_metrics.average_rr_ratio = risk_analysis.scenarios[k].rr_ratio

(***************************************************************************)
(* The run up to the risk analyst, over graded snapshots (SpecRisk)        *)
(***************************************************************************)
\* snapshots of the scored fields that give every strength_score between the
\* grades, the thresholds 30, 40, 50 and 70 among them
GradeSnapshots ==
    Combine(Family("moving_averages",
                   {[price_vs_SMA50 |-> p[1], price_vs_SMA200 |-> p[2],
                     SMA_50 |-> p[3], SMA_200 |-> p[4]] :
                       p \in {<<3, 3, 9900, 9500>>, <<3, -2, 9900, 9500>>,
                              <<3, -2, 9500, 9900>>, <<-2, -2, 9500, 9900>>}}),
    Combine(Family("supertrend", {[signal |-> c] : c \in {"BULLISH", "BEARISH"}}),
    Combine(Family("ichimoku", {[price_vs_cloud |-> c] : c \in {"ABOVE", "BELOW"}}),
    Combine(Family("rsi", {[value |-> 25, condition |-> "OVERSOLD"],
                           [value |-> 40, condition |-> "NEUTRAL"],
                           [value |-> 60, condition |-> "NEUTRAL"],
                           [value |-> 75, condition |-> "OVERBOUGHT"]}),
    Combine(Family("macd", {[signal |-> c] : c \in {"BULLISH", "BEARISH"}}),
            Family("stochastic", {[condition |-> c] : c \in {"OVERSOLD", "OVERBOUGHT"}}))))))

\* ATR: missing, and 1%, 3% and 5% of the price (LOW, MODERATE, HIGH)
GradeAtr == Family("atr", {[value |-> 200, percentage |-> p] : p \in {1, 3, 5}})

RiskEnvs ==
    {[fetch |-> "ok", symbol |-> "RELIANCE", timeframe |-> "1d",
      latest_candle |-> [close |-> Close, volume |-> 1000],
      indicators    |-> i,
      chart_path    |-> "chart.png",
      chart_exists  |-> FALSE] : i \in Combine(GradeSnapshots, GradeAtr)}

InitRisk ==
    /\ pc = "start"
    /\ env \in RiskEnvs
    /\ data_package = NoValue
    /\ technical_analysis = NoValue
    /\ pattern_analysis = NoValue
    /\ risk_analysis = NoValue
    /\ report = NoValue
    /\ result = NoValue
    /\ OthersUnused

NextRisk ==
    \/ agent_1_orchestrate
    \/ agent_2_analyze
    \/ agent_3_analyze_chart
    \/ agent_4_analyze

SpecRisk == InitRisk /\ [][NextRisk]_vars

\* C16: risk_grade is A exactly when strength_score > 70 and the volatility
\* is not HIGH, otherwise B when strength_score > 50, otherwise C when
\* strength_score > 30, otherwise D; 70, 50 and 30 fall in the lower grade.
C16_RiskGrade ==
    RiskDone =>
        LET strength   == technical_analysis.strength_score
            volatility == technical_analysis.volatility_analysis.volatility_level
            grade      == risk_analysis.risk_metrics.risk_grade
        IN  /\ grade = "A (Low Risk)" <=> (strength > 7000 /\ volatility # "HIGH")
            /\ grade = "B (Moderate Risk)" <=>
                  (strength > 5000 /\ ~(strength > 7000 /\ volatility # "HIGH"))
            /\ grade = "C (High Risk)" <=> (strength > 3000 /\ strength <= 5000)
            /\ grade = "D (Very High Risk)" <=> strength <= 3000

\* a strength_score of exactly 70 with a volatility that is not HIGH: grade B
C16_Witness ==
    /\ RiskDone
    /\ technical_analysis.strength_score = 7000
    /\ technical_analysis.volatility_analysis.volatility_level = "MODERATE"
    /\ risk_analysis.risk_metrics.risk_grade = "B (Moderate Risk)"

\* C17: the recommended position is the band of the volatility (HIGH 1-2%,
\* MODERATE 2-3%, otherwise 3-5%), and exactly when strength_score < 40 the
\* lower bound of the band alone; a strength_score of 40 keeps the band.
C17_PositionBand ==
    RiskDone =>
        LET strength   == technical_analysis.strength_score
            volatility == technical_analysis.volatility_analysis.volatility_level
            position   == risk_analysis.position_sizing.recommended_position
            band  == IF volatility = "HIGH" THEN << "1%", "1-2%" >>
                     ELSE IF volatility = "MODERATE" THEN << "2%", "2-3%" >>
                     ELSE << "3%", "3-5%" >>
        IN  /\ position \in {band[1], band[2]}
            /\ position = band[1] <=> strength < 4000

\* a strength_score of exactly 40 with a HIGH volatility: the band 1-2%
C17_Witness ==
    /\ RiskDone
    /\ technical_analysis.strength_score = 4000
    /\ technical_analysis.volatility_analysis.volatility_level = "HIGH"
    /\ risk_analysis.position_sizing.recommended_position = "1-2%"

(***************************************************************************)
(* Properties of the trend and momentum scorers (SpecTech)                 *)
(***************************************************************************)
Trend == technical_analysis.trend_analysis

Momentum == technical_analysis.momentum_analysis

\* C18: the trend score is an integer in [-6, 6] and the momentum score (in
\* halves) lies in [-3, 3], so neither part of the strength score is
\* above 40.
C18_ScoresInRange ==
    Analysed =>
        /\ Trend.score \in -6..6
        /\ Momentum.score \in (-3 * HALVES)..(3 * HALVES)
        /\ 40 * Abs(Trend.score) <= 40 * 6
        /\ 40 * Abs(Momentum.score) <= 40 * 3 * HALVES

\* the lowest scores: trend -5 and momentum -2.5
C18_Witness ==
    /\ Analysed
    /\ Trend.score = -5
    /\ Momentum.score = -5

\* C19: the trend label follows from the trend score alone (>= 3 STRONG
\* BULLISH, 1..2 BULLISH, <= -3 STRONG BEARISH, -2..-1 BEARISH, 0 NEUTRAL),
\* and a snapshot with the price above the SMA 50 and the SMA 200, SMA 50
\* above SMA 200, SuperTrend BULLISH and the price above the cloud has the
\* score 5 and the label STRONG BULLISH.
C19_TrendLabel ==
    Analysed =>
        LET ma == Get(Snapshot, "moving_averages", EmptyDict)
        IN  /\ Trend.score >= 3 => Trend.trend = "STRONG BULLISH"
            /\ Trend.score \in 1..2 => Trend.trend = "BULLISH"
            /\ Trend.score = 0 => Trend.trend = "NEUTRAL"
            /\ Trend.score \in -2..-1 => Trend.trend = "BEARISH"
            /\ Trend.score <= -3 => Trend.trend = "STRONG BEARISH"
            /\ (/\ {"price_vs_SMA50", "price_vs_SMA200", "SMA_50", "SMA_200"} \subseteq DOMAIN ma
                /\ ma.price_vs_SMA50 > 0
                /\ ma.price_vs_SMA200 > 0
                /\ ma.SMA_50 > ma.SMA_200
                /\ Has(Snapshot, <<"supertrend", "signal">>)
                /\ Snapshot.supertrend.signal = "BULLISH"
                /\ Has(Snapshot, <<"ichimoku", "price_vs_cloud">>)
                /\ Snapshot.ichimoku.price_vs_cloud = "ABOVE")
               => Trend.score = 5 /\ Trend.trend = "STRONG BULLISH"

\* the example: all five checks bullish
C19_Witness ==
    /\ Analysed
    /\ "moving_averages" \in DOMAIN Snapshot
    /\ {"price_vs_SMA50", "price_vs_SMA200", "SMA_50", "SMA_200"}
          \subseteq DOMAIN Snapshot.moving_averages
    /\ Snapshot.moving_averages.price_vs_SMA50 > 0
    /\ Snapshot.moving_averages.price_vs_SMA200 > 0
    /\ Snapshot.moving_averages.SMA_50 > Snapshot.moving_averages.SMA_200
    /\ Has(Snapshot, <<"supertrend", "signal">>)
    /\ Snapshot.supertrend.signal = "BULLISH"
    /\ Has(Snapshot, <<"ichimoku", "price_vs_cloud">>)
    /\ Snapshot.ichimoku.price_vs_cloud = "ABOVE"
    /\ Trend.score = 5
    /\ Trend.trend = "STRONG BULLISH"

\* C20: the momentum score is the sum of the RSI part (OVERSOLD +1,
\* OVERBOUGHT -1, otherwise +0.5 for a value above 50 and -0.5 for a value
\* below 50; the code gives -0.5 at exactly 50), the MACD part (BULLISH +1,
\* anything else -1) and the Stochastic part (OVERSOLD +0.5, OVERBOUGHT
\* -0.5, otherwise 0).  Parts are in halves; a missing field has the default
\* the code reads it with.
C20_MomentumParts ==
    Analysed =>
        LET rsi   == Get(Snapshot, "rsi", EmptyDict)
            macd  == Get(Snapshot, "macd", EmptyDict)
            stoch == Get(Snapshot, "stochastic", EmptyDict)
            value == Get(rsi, "value", 50)
            rsi_part ==
                CASE Get(rsi, "condition", "NEUTRAL") = "OVERSOLD"   -> 2
                  [] Get(rsi, "condition", "NEUTRAL") = "OVERBOUGHT" -> -2
                  [] OTHER -> IF value - 50 > 0 THEN 1
                              ELSE IF value - 50 < 0 THEN -1 ELSE -1
            macd_part == IF Get(macd, "signal", "NEUTRAL") = "BULLISH" THEN 2 ELSE -2
            stoch_part ==
                CASE Get(stoch, "condition", "NEUTRAL") = "OVERSOLD"   -> 1
                  [] Get(stoch, "condition", "NEUTRAL") = "OVERBOUGHT" -> -1
                  [] OTHER -> 0
        IN  Momentum.score = rsi_part + macd_part + stoch_part

\* an RSI of exactly 50, a BULLISH MACD and an OVERSOLD Stochastic: the score
\* is -0.5 + 1 + 0.5
C20_Witness ==
    /\ Analysed
    /\ Has(Snapshot, <<"rsi", "value">>)
    /\ Snapshot.rsi.value = 50
    /\ Has(Snapshot, <<"macd", "signal">>)
    /\ Snapshot.macd.signal = "BULLISH"
    /\ Has(Snapshot, <<"stochastic", "condition">>)
    /\ Snapshot.stochastic.condition = "OVERSOLD"
    /\ Momentum.score = 2

(***************************************************************************)
(* Properties of the overall bias and of the ADX description (SpecTech)    *)
(***************************************************************************)
\* C21: overall_bias follows from total = trend score + momentum score
\* alone, half-integer totals included: total >= 4 STRONG BULLISH,
\* 2 <= total < 4 BULLISH, total <= -4 STRONG BEARISH, -4 < total <= -2
\* BEARISH, NEUTRAL otherwise.
C21_BiasByTotal ==
    Analysed =>
        LET Total == HALVES * Trend.score + Momentum.score
        IN  technical_analysis.overall_bias =
            (CASE Total >= 4 * HALVES -> "STRONG BULLISH"
               [] Total >= 2 * HALVES /\ Total < 4 * HALVES -> "BULLISH"
               [] Total <= -4 * HALVES -> "STRONG BEARISH"
               [] Total > -4 * HALVES /\ Total <= -2 * HALVES -> "BEARISH"
               [] OTHER -> "NEUTRAL")

\* a total of exactly 4 made of trend 3 and momentum 1: STRONG BULLISH
C21_Witness ==
    /\ Analysed
    /\ Trend.score = 3
    /\ Momentum.score = 1 * HALVES
    /\ technical_analysis.overall_bias = "STRONG BULLISH"

(***************************************************************************)
(* TechnicalIndicators._calculate_adx and the runs over its outcomes       *)
(* (SpecAdx).  ADX and DI values are in tenths.                            *)
(***************************************************************************)
TENTHS == 10

\* largest ADX value enumerated, in tenths
MaxAdx == 260

\* the strength with the thresholds included in the upper class
AdxStrengthAtOrAbove(outcome) ==
    IF outcome = NoValue
    THEN [value |-> 0, strength |-> "WEAK", plus_di |-> 0, minus_di |-> 0]
    ELSE [value    |-> outcome.adx,
          strength |-> IF outcome.adx >= 25 * TENTHS THEN "STRONG"
                       ELSE IF outcome.adx >= 20 * TENTHS THEN "MODERATE"
                       ELSE "WEAK",
          plus_di  |-> outcome.dmp,
          minus_di |-> outcome.dmn]

\* indicators['adx'] for the latest row of ta.adx, or for a failed
\* calculation (NoValue)
_calculate_adx(outcome) ==
    IF outcome = NoValue
    THEN [value |-> 0, strength |-> "WEAK", plus_di |-> 0, minus_di |-> 0]
    ELSE [value    |-> outcome.adx,
          strength |-> IF outcome.adx > 25 * TENTHS THEN "STRONG"
                       ELSE IF outcome.adx > 20 * TENTHS THEN "MODERATE"
                       ELSE "WEAK",
          plus_di  |-> outcome.dmp,
          minus_di |-> outcome.dmn]

\* what ta.adx delivers: nothing, or the latest ADX, +DI and -DI
AdxOutcomes ==
    {NoValue} \cup {[adx |-> v, dmp |-> 220, dmn |-> 180] : v \in 0..MaxAdx}

\* the adx family of a snapshot: absent, or as calculated
AdxFamilies == Family("adx", {_calculate_adx(o) : o \in AdxOutcomes})

AdxSnapshots ==
    Combine(Family("supertrend", {[signal |-> c] : c \in {"BULLISH", "BEARISH"}}),
    Combine(Family("macd", {[signal |-> c] : c \in {"BULLISH", "BEARISH"}}),
            AdxFamilies))

AdxEnvs ==
    {[fetch |-> "ok", symbol |-> "RELIANCE", timeframe |-> "1d",
      latest_candle |-> [close |-> Close, volume |-> 1000],
      indicators    |-> i,
      chart_path    |-> "chart.png",
      chart_exists  |-> FALSE] : i \in AdxSnapshots}

InitAdx ==
    /\ pc = "start"
    /\ env \in AdxEnvs
    /\ data_package = NoValue
    /\ technical_analysis = NoValue
    /\ pattern_analysis = NoValue
    /\ risk_analysis = NoValue
    /\ report = NoValue
    /\ result = NoValue
    /\ OthersUnused

NextAdx ==
    \/ agent_1_orchestrate
    \/ agent_2_analyze

SpecAdx == InitAdx /\ [][NextAdx]_vars

\* the snapshot with another adx family, or with none
WithAdx(indicators, family) == RemoveFamily(indicators, "adx") @@ family

\* C22: ADX is descriptive only: the analysis of the snapshot with any other
\* adx family (or none) has the same trend score, trend label, overall_bias
\* and strength_score, and the same analysis altogether apart from
\* adx_strength and the last signal text.
C22_AdxDescriptiveOnly ==
    Analysed =>
        \A family \in AdxFamilies :
            LET other == TechnicalAnalysis(
                             [data_package EXCEPT
                                 !.indicators = WithAdx(Snapshot, family)])
                Rest(t) == [k \in DOMAIN t \ {"adx_strength", "signals"} |-> t[k]]
                Front(q) == SubSeq(q, 1, Len(q) - 1)
            IN  /\ other.trend_analysis.score = Trend.score
                /\ other.trend_analysis.trend = Trend.trend
                /\ other.overall_bias = technical_analysis.overall_bias
                /\ other.strength_score = technical_analysis.strength_score
                /\ Rest(other.trend_analysis) = Rest(Trend)
                /\ Front(other.trend_analysis.signals) = Front(Trend.signals)
                /\ [other EXCEPT !.trend_analysis = Trend] = technical_analysis

\* a STRONG ADX on a snapshot of trend score -1, where one more point would
\* change the label, and a WEAK one that gives another adx_strength
C22_Witness ==
    /\ Analysed
    /\ "adx" \in DOMAIN Snapshot
    /\ Trend.adx_strength = "STRONG"
    /\ Trend.score = -1
    /\ Trend.trend = "BEARISH"
    /\ \E family \in AdxFamilies :
          _analyze_trend(WithAdx(Snapshot, family)).adx_strength = "WEAK"

\* C23: the ADX strength is STRONG only for a value strictly above 25,
\* MODERATE for a value in (20, 25], 25 included, and WEAK for a value of 20
\* or below; the trend analysis reports that strength.
C23_AdxStrength ==
    (pc # "start" /\ "adx" \in DOMAIN Snapshot) =>
        LET adx == Snapshot.adx
        IN  /\ adx.strength = "STRONG" <=> adx.value > 25 * TENTHS
            /\ adx.strength = "MODERATE" <=>
                   (adx.value > 20 * TENTHS /\ adx.value <= 25 * TENTHS)
            /\ adx.strength = "WEAK" <=> adx.value <= 20 * TENTHS
            /\ Analysed => Trend.adx_strength = adx.strength

\* an ADX of exactly 25.0 reported as MODERATE
C23_Witness ==
    /\ Analysed
    /\ "adx" \in DOMAIN Snapshot
    /\ Snapshot.adx.value = 25 * TENTHS
    /\ Snapshot.adx.strength = "MODERATE"
    /\ Trend.adx_strength = "MODERATE"

(***************************************************************************)
(* Concurrent analyses on one TechnicalAnalyst and one RiskScenarioAnalyst *)
(* (SpecConcurrent).  Neither class assigns an attribute after __init__;   *)
(* every name the methods assign is a local of the call.                   *)
(***************************************************************************)
\* number of analyses running at the same time
NCallers == 2

Callers == 1..NCallers

\* the locals kept in one place for all the calls, as attributes of the
\* instance would be
SharedFrame(c) == 1

\* the frame that holds the locals of the call c: its own
Frame(c) == c

\* the arguments of an analysis: the data package of some snapshot;
\* pattern_analysis only enters the prompt
ConcurrentPackages ==
    {p \in {Package(i) : i \in BiasProfiles} :
        TechnicalAnalysis(p).overall_bias \in {"STRONG BULLISH", "BEARISH", "NEUTRAL"}}

InitConcurrent ==
    /\ calls \in [Callers -> {[pc |-> "analyze", given |-> p, data_package |-> p,
                                technical_analysis |-> NoValue, llm |-> NoValue,
                                risk_analysis |-> NoValue] : p \in ConcurrentPackages}]
    /\ frames = [f \in Callers |->
                    [analysis |-> NoValue, llm_response |-> NoValue,
                     scenarios |-> NoValue, backtest_results |-> NoValue]]
    /\ pc = "idle"
    /\ env = NoEnv
    /\ data_package = NoValue
    /\ technical_analysis = NoValue
    /\ pattern_analysis = NoValue
    /\ risk_analysis = NoValue
    /\ report = NoValue
    /\ result = NoValue
    /\ http_response = NoValue
    /\ fetcher = NoValue
    /\ now = 0
    /\ call = NoValue
    /\ stored = NoValue

\* the call c moves to the position next and its frame takes the locals
Step(c, next, locals) ==
    /\ calls' = [calls EXCEPT ![c].pc = next]
    /\ frames' = [frames EXCEPT ![Frame(c)] = locals]
    /\ UNCHANGED <<pipeline, http_response, fetcher, now, call, stored>>

\* TechnicalAnalyst.analyze: the analysis dict is built ...
analyze_build ==
    \E c \in Callers :
        /\ calls[c].pc = "analyze"
        /\ LET indicators    == calls[c].data_package.indicators
               latest_candle == calls[c].data_package.latest_candle
           IN  Step(c, "bias",
                    [frames[Frame(c)] EXCEPT !.analysis =
                        [trend_analysis      |-> _analyze_trend(indicators),
                         momentum_analysis   |-> _analyze_momentum(indicators),
                         volatility_analysis |-> _analyze_volatility(indicators),
                         volume_analysis     |-> _analyze_volume(indicators),
                         support_resistance  |->
                             _analyze_support_resistance(indicators, latest_candle),
                         signal_confluence   |-> _identify_confluences(indicators),
                         overall_bias        |-> PyNone,
                         strength_score      |-> 0,
                         key_levels          |-> EmptyDict]])

\* ... then its overall_bias, strength_score and key_levels are assigned
analyze_bias ==
    \E c \in Callers :
        /\ calls[c].pc = "bias"
        /\ Step(c, "strength",
                [frames[Frame(c)] EXCEPT !.analysis.overall_bias =
                    _determine_bias(frames[Frame(c)].analysis)])

analyze_strength ==
    \E c \in Callers :
        /\ calls[c].pc = "strength"
        /\ Step(c, "key_levels",
                [frames[Frame(c)] EXCEPT !.analysis.strength_score =
                    _calculate_strength_score(frames[Frame(c)].analysis)])

analyze_key_levels ==
    \E c \in Callers :
        /\ calls[c].pc = "key_levels"
        /\ Step(c, "return",
                [frames[Frame(c)] EXCEPT !.analysis.key_levels =
                    _identify_key_levels(calls[c].data_package.indicators,
                                         calls[c].data_package.latest_candle)])

analyze_return ==
    \E c \in Callers :
        /\ calls[c].pc = "return"
        /\ calls' = [calls EXCEPT ![c].pc = "risk_llm",
                                  ![c].technical_analysis = frames[Frame(c)].analysis]
        /\ UNCHANGED <<frames, pipeline, http_response, fetcher, now, call, stored>>

\* RiskScenarioAnalyst.analyze: the call of the language model raises, and
\* the fallback is returned, or its text is kept ...
risk_call_llm ==
    \E c \in Callers, llm \in RiskResponses :
        /\ calls[c].pc = "risk_llm"
        /\ IF llm.ok
           THEN /\ calls' = [calls EXCEPT ![c].pc = "parse", ![c].llm = llm]
                /\ frames' = [frames EXCEPT ![Frame(c)].llm_response = llm.text]
           ELSE /\ calls' = [calls EXCEPT
                                ![c].pc = "done",
                                ![c].llm = llm,
                                ![c].risk_analysis =
                                    _fallback_scenarios(calls[c].data_package,
                                                        calls[c].technical_analysis)]
                /\ UNCHANGED frames
        /\ UNCHANGED <<pipeline, http_response, fetcher, now, call, stored>>

\* ... the scenarios are parsed, the backtest is simulated ...
risk_parse ==
    \E c \in Callers :
        /\ calls[c].pc = "parse"
        /\ Step(c, "backtest",
                [frames[Frame(c)] EXCEPT !.scenarios =
                    _parse_scenarios(frames[Frame(c)].llm_response,
                                     calls[c].data_package,
                                     calls[c].technical_analysis)])

risk_backtest ==
    \E c \in Callers :
        /\ calls[c].pc = "backtest"
        /\ Step(c, "result",
                [frames[Frame(c)] EXCEPT !.backtest_results =
                    _simulate_backtest(calls[c].data_package,
                                       calls[c].technical_analysis)])

\* ... and the result is put together and returned
risk_return ==
    \E c \in Callers :
        /\ calls[c].pc = "result"
        /\ calls' = [calls EXCEPT
                        ![c].pc = "done",
                        ![c].risk_analysis =
                            [scenarios        |-> frames[Frame(c)].scenarios,
                             backtest         |-> frames[Frame(c)].backtest_results,
                             risk_metrics     |->
                                 _calculate_risk_metrics(calls[c].data_package,
                                                         calls[c].technical_analysis,
                                                         frames[Frame(c)].scenarios),
                             position_sizing  |->
                                 _recommend_position_size(calls[c].data_package,
                                                          calls[c].technical_analysis),
                             raw_llm_analysis |-> frames[Frame(c)].llm_response]]
        /\ UNCHANGED <<frames, pipeline, http_response, fetcher, now, call, stored>>

NextConcurrent ==
    \/ analyze_build
    \/ analyze_bias
    \/ analyze_strength
    \/ analyze_key_levels
    \/ analyze_return
    \/ risk_call_llm
    \/ risk_parse
    \/ risk_backtest
    \/ risk_return

SpecConcurrent == InitConcurrent /\ [][NextConcurrent]_vars

\* C24: under every interleaving of the concurrent calls, frames, each analysis
\* returns what it returns when it runs alone on its arguments, and the data
\* package it was given, the indicator snapshot included, stays as given.
C24_NoSharedState ==
    calls # NoValue =>
        \A c \in Callers :
            LET given == calls[c].given
                alone == TechnicalAnalysis(given)
            IN  /\ calls[c].data_package = given
                /\ calls[c].data_package.indicators = given.indicators
                /\ calls[c].technical_analysis # NoValue =>
                       calls[c].technical_analysis = alone
                /\ calls[c].pc = "done" =>
                       calls[c].risk_analysis =
                           RiskAnalysis(given, alone, EmptyDict, calls[c].llm)

\* two analyses of different snapshots under way at the same time: the
\* first between two assignments to its analysis dict, the second, its
\* technical analysis returned, inside RiskScenarioAnalyst.analyze
C24_Witness ==
    /\ calls # NoValue
    /\ calls[1].pc = "key_levels"
    /\ calls[2].pc = "backtest"
    /\ calls[1].given # calls[2].given
    /\ frames[1].analysis.overall_bias = "STRONG BULLISH"
    /\ calls[2].technical_analysis.overall_bias = "BEARISH"
    /\ frames[2].scenarios # NoValue

(***************************************************************************)
(* run_analysis with the exceptions its handler catches (SpecRun)          *)
(***************************************************************************)
Running == {"start", "agent_2", "agent_3", "agent_4", "agent_5", "compile"}

\* an exception that leaves run_analysis
ExceptionPropagates ==
    /\ pc \in Running
    /\ pc' = "done"
    /\ UNCHANGED <<env, data_package, technical_analysis, pattern_analysis,
                   risk_analysis, report, result>>
    /\ UNCHANGED others

\* an exception raised by the agent that runs, or while the result is
\* compiled, is caught and the error result is returned
run_analysis_except ==
    /\ pc \in Running
    /\ result' = [status |-> "error", error |-> "Exception",
                  traceback |-> "Traceback",
                  symbol |-> env.symbol, timeframe |-> env.timeframe]
    /\ pc' = "done"
    /\ UNCHANGED <<env, data_package, technical_analysis, pattern_analysis,
                   risk_analysis, report>>
    /\ UNCHANGED others

NextRun ==
    \/ agent_1_orchestrate
    \/ agent_2_analyze
    \/ agent_3_analyze_chart
    \/ agent_4_analyze
    \/ agent_5_generate_report
    \/ compile_result
    \/ run_analysis_except

SpecRun == Init /\ [][NextRun]_vars

\* the positions of run_analysis in the order of the agents
Order ==
    {<<"start", "agent_2">>, <<"agent_2", "agent_3">>, <<"agent_3", "agent_4">>,
     <<"agent_4", "agent_5">>, <<"agent_5", "compile">>, <<"compile", "done">>}

Returned(output) == output # NoValue

\* C25: run_analysis runs the agents in the order 1, 2, 3, 4, 5, agent k
\* only after agents 1..k-1 have returned; when agent 1 returns a status
\* other than 'success', run_analysis returns at once the result of status
\* 'error' with the error of agent 1, and no output of agents 2 to 5 ever
\* comes to exist.
C25_AgentsInOrder ==
    [][/\ pc' # pc => (<<pc, pc'>> \in Order \/ (pc \in Running /\ pc' = "done"))
       /\ data_package' # data_package => pc = "start"
       /\ technical_analysis' # technical_analysis =>
              (pc = "agent_2" /\ Returned(data_package)
               /\ data_package.status = "success")
       /\ pattern_analysis' # pattern_analysis =>
              (pc = "agent_3" /\ Returned(technical_analysis))
       /\ risk_analysis' # risk_analysis =>
              (pc = "agent_4" /\ Returned(pattern_analysis))
       /\ report' # report => (pc = "agent_5" /\ Returned(risk_analysis))
       /\ (Returned(data_package') /\ data_package'.status # "success") =>
              /\ pc' = "done"
              /\ result'.status = "error"
              /\ result'.error = data_package'.error
              /\ ~Returned(technical_analysis') /\ ~Returned(pattern_analysis')
              /\ ~Returned(risk_analysis') /\ ~Returned(report')
      ]_vars

\* agent 1 has returned the status 'error' and run_analysis its error
C25_Witness ==
    /\ pc = "done"
    /\ Returned(data_package)
    /\ data_package.status = "error"
    /\ result.status = "error"
    /\ result.error = data_package.error
    /\ ~Returned(technical_analysis)

\* C26: run_analysis never lets an exception out: whatever the agents do,
\* it returns a record of status 'success' or 'error', and a record of
\* status 'success' holds technical_analysis, risk_analysis.scenarios and
\* report.
C26_AlwaysARecord ==
    /\ pc # "done" => result = NoValue
    /\ pc = "done" =>
          /\ result # NoValue
          /\ "status" \in DOMAIN result
          /\ result.status \in {"success", "error"}
          /\ result.status = "error" => "error" \in DOMAIN result
          /\ result.status = "success" =>
                /\ {"technical_analysis", "risk_analysis", "report"}
                       \subseteq DOMAIN result
                /\ "scenarios" \in DOMAIN result.risk_analysis
                /\ result.risk_analysis.scenarios = risk_analysis.scenarios
                /\ result.report.markdown = report.markdown

\* an exception raised while agent 4 ran, after the fallbacks of agent 3
C26_Witness ==
    /\ pc = "done"
    /\ result.status = "error"
    /\ "traceback" \in DOMAIN result
    /\ Returned(pattern_analysis)
    /\ ~Returned(risk_analysis)

(***************************************************************************)
(* The /api/analyze-ai endpoint of main.py (SpecApi)                       *)
(***************************************************************************)
\* the names bound in the module main when a request is handled: its imports,
\* its assignments, its classes and its functions
main_globals ==
    {"sys", "os", "Path", "backend_dir", "FastAPI", "HTTPException",
     "CORSMiddleware", "FileResponse", "JSONResponse", "BaseModel", "Optional",
     "List", "load_dotenv", "traceback", "sanitize_response", "app", "origins",
     "AnalysisRequest", "HealthResponse", "health_check", "api_health",
     "debug_test", "get_stock_info", "get_stock_data", "analyze_stock",
     "analyze_stock_ai", "download_docx", "get_chart", "get_nifty50_symbols"}

\* what DOCXReportGenerator does for the request: it returns a path or raises
DocxOutcomes == {"reports/report.docx", "raise"}

ApiEnvs == {e @@ [docx |-> d] : e \in Envs, d \in DocxOutcomes}

InitApi ==
    /\ pc = "start"
    /\ env \in ApiEnvs
    /\ data_package = NoValue
    /\ technical_analysis = NoValue
    /\ pattern_analysis = NoValue
    /\ risk_analysis = NoValue
    /\ report = NoValue
    /\ result = NoValue
    /\ OthersUnused

\* JSONResponse(status_code=500, ...) of the outer handler
ServerError(type) ==
    [status_code |-> 500,
     content |-> [error |-> type, type |-> type, traceback |-> "Traceback",
                  symbol |-> env.symbol, timeframe |-> env.timeframe]]

\* run_analysis has returned: a status other than 'success' is raised as an
\* HTTPException of status 500
endpoint_status ==
    /\ pc = "done"
    /\ IF result.status # "success"
       THEN /\ http_response' = [status_code |-> 500,
                                 detail |-> Get(result, "error", "AI analysis failed")]
            /\ pc' = "responded"
       ELSE /\ pc' = "docx"
            /\ UNCHANGED http_response
    /\ UNCHANGED <<env, data_package, technical_analysis, pattern_analysis,
                   risk_analysis, report, result, calls, frames, fetcher, now, call, stored>>

\* the DOCX report: the path is added to the result; or the generator raises,
\* the inner handler starts with logger.warning, and main binds no name
\* logger: the NameError reaches the outer handler
endpoint_docx ==
    /\ pc = "docx"
    /\ IF env.docx # "raise"
       THEN /\ result' = result @@ [docx_path |-> env.docx,
                                    docx_filename |-> "report.docx",
                                    docx_download_url |->
                                        <<"/api/download/docx/", "report.docx">>]
            /\ pc' = "sanitize"
            /\ UNCHANGED http_response
       ELSE IF "logger" \in main_globals
       THEN /\ result' = result @@ [docx_path |-> PyNone, docx_error |-> "Exception"]
            /\ pc' = "sanitize"
            /\ UNCHANGED http_response
       ELSE /\ http_response' = ServerError("NameError")
            /\ pc' = "responded"
            /\ UNCHANGED result
    /\ UNCHANGED <<env, data_package, technical_analysis, pattern_analysis,
                   risk_analysis, report, calls, frames, fetcher, now, call, stored>>

\* return sanitize_response(result)
endpoint_return ==
    /\ pc = "sanitize"
    /\ http_response' = [status_code |-> 200, content |-> result]
    /\ pc' = "responded"
    /\ UNCHANGED <<env, data_package, technical_analysis, pattern_analysis,
                   risk_analysis, report, result, calls, frames, fetcher, now, call, stored>>

NextApi ==
    \/ agent_1_orchestrate
    \/ agent_2_analyze
    \/ agent_3_analyze_chart
    \/ agent_4_analyze
    \/ agent_5_generate_report
    \/ compile_result
    \/ endpoint_status
    \/ endpoint_docx
    \/ endpoint_return

SpecApi == InitApi /\ [][NextApi]_vars

\* C27: when the analysis succeeded and the DOCX generation fails, the
\* request still succeeds: the answer is the analysis result with
\* docx_path = None and docx_error set, not an HTTP 500 error.
C27_DocxFailureStillSucceeds ==
    (pc = "responded" /\ result.status = "success" /\ env.docx = "raise") =>
        /\ http_response.status_code = 200
        /\ {"docx_path", "docx_error"} \subseteq DOMAIN http_response.content
        /\ http_response.content.docx_path = PyNone

\* the analysis succeeded, the DOCX generation failed, and the answer is the
\* status 500 with a NameError
C27_DocxFailureIsServerError ==
    /\ pc = "responded"
    /\ result.status = "success"
    /\ env.docx = "raise"
    /\ http_response.status_code = 500
    /\ http_response.content.type = "NameError"

(***************************************************************************)
(* The recommendation of the report across the whole run (Spec)            *)
(***************************************************************************)
Reported == pc \in {"compile", "done"} /\ Returned(report)

\* C28: across the whole pipeline the recommendation is BUY only if
\* overall_bias is STRONG BULLISH; for a bias of BULLISH, NEUTRAL, BEARISH or
\* STRONG BEARISH it is WATCH or WAIT.
C28_BuyOnlyStrongBullish ==
    Reported =>
        /\ report.recommendation[1] \in {"BUY", "WATCH", "WAIT - Low R:R ratios", "WAIT - No clear setup"}
        /\ report.recommendation[1] = "BUY" => technical_analysis.overall_bias = "STRONG BULLISH"
        /\ technical_analysis.overall_bias
               \in {"BULLISH", "NEUTRAL", "BEARISH", "STRONG BEARISH"}
              => report.recommendation[1] \in {"WATCH", "WAIT - Low R:R ratios", "WAIT - No clear setup"}
        /\ pc = "done" => result.report.recommendation = report.recommendation

\* a BEARISH snapshot whose best scenario has a ratio above 1.5: WATCH
C28_Witness ==
    /\ Reported
    /\ technical_analysis.overall_bias = "BEARISH"
    /\ \E i \in 1..Len(risk_analysis.scenarios) :
          risk_analysis.scenarios[i].rr_ratio > 150
    /\ report.recommendation[1] = "WATCH"

(***************************************************************************)
(* StockDataFetcher.fetch_live_data: retries and cache (SpecFetch).        *)
(* Calls on one instance follow one another; time passes between the steps *)
(* of a call and between calls.                                            *)
(***************************************************************************)
PERIOD_MAPPING ==
    [t \in {"1m", "5m", "15m", "1h", "4h", "1d", "1wk"} |->
        CASE t = "1m" -> "7d"
          [] t \in {"5m", "15m"} -> "60d"
          [] t \in {"1h", "4h"} -> "730d"
          [] t = "1d" -> "5y"
          [] t = "1wk" -> "10y"]

\* cache durations, in seconds
CACHE_DURATION ==
    [t \in {"1m", "5m", "15m", "1h", "4h", "1d", "1wk"} |->
        CASE t = "1m" -> 60
          [] t = "5m" -> 300
          [] t = "15m" -> 900
          [] t = "1h" -> 3600
          [] t = "4h" -> 7200
          [] t = "1d" -> 14400
          [] t = "1wk" -> 86400]

max_retries == 3

\* seconds that pass in one step of the clock
Tick == 30

\* the clock stops here
MaxTime == 120

\* the arguments of the calls
Requests ==
    [symbol : {"RELIANCE"}, timeframe : {"1m", "5m"}, period : {PyNone},
     use_cache : BOOLEAN]

\* what one upstream request does: ticker.history returns rows that survive
\* the cleaning, rows that do not, or no rows; or the request raises a
\* rate-limit error or another error
Outcomes == {"data", "unclean", "empty", "rate limit", "error"}

\* df = None, and a DataFrame without rows
NoFrame == [rows |-> "none"]

EmptyFrame == [rows |-> "empty"]

\* no call has been made yet
NoCall == [pc |-> "idle"]

\* f"{symbol}_{timeframe}_{period}"
_get_cache_key(symbol, timeframe, period) == <<symbol, timeframe, period>>

\* an entry is valid up to and including the age max_age
CacheValidAtAge(cache_entry, timeframe) ==
    /\ {"timestamp", "data"} \subseteq DOMAIN cache_entry
    /\ now - cache_entry.timestamp <= Get(CACHE_DURATION, timeframe, 3600)

_is_cache_valid(cache_entry, timeframe) ==
    /\ {"timestamp", "data"} \subseteq DOMAIN cache_entry
    /\ now - cache_entry.timestamp < Get(CACHE_DURATION, timeframe, 3600)

InitFetch ==
    /\ fetcher = [cache |-> EmptyDict]
    /\ now = 0
    /\ call = NoCall
    /\ stored = EmptyDict
    /\ pc = "idle"
    /\ env = NoEnv
    /\ data_package = NoValue
    /\ technical_analysis = NoValue
    /\ pattern_analysis = NoValue
    /\ risk_analysis = NoValue
    /\ report = NoValue
    /\ result = NoValue
    /\ http_response = NoValue
    /\ calls = NoValue
    /\ frames = NoValue

\* time.time() moves on
tick ==
    /\ now + Tick <= MaxTime
    /\ now' = now + Tick
    /\ UNCHANGED <<fetcher, call, stored, pipeline, http_response, calls, frames>>

Ended == call.pc \in {"idle", "returned", "raised"}

\* a call begins: the period is mapped, and a valid cache entry is returned
\* at once
fetch_live_data ==
    /\ Ended
    /\ \E request \in Requests :
          LET period == IF request.period = PyNone
                        THEN Get(PERIOD_MAPPING, request.timeframe, "1y")
                        ELSE request.period
              cache_key == _get_cache_key(request.symbol, request.timeframe, period)
              begun == [request |-> request, cache_key |-> cache_key, attempt |-> 0,
                        df |-> NoFrame, requests |-> 0, last |-> "none",
                        returned |-> NoFrame]
          IN  IF /\ request.use_cache
                 /\ cache_key \in DOMAIN fetcher.cache
                 /\ _is_cache_valid(fetcher.cache[cache_key], request.timeframe)
              THEN call' = [begun EXCEPT !.returned = fetcher.cache[cache_key].data]
                               @@ [pc |-> "returned", served |-> TRUE]
              ELSE call' = begun @@ [pc |-> "attempt", served |-> FALSE]
    /\ UNCHANGED <<fetcher, now, stored, pipeline, http_response, calls, frames>>

\* the retry of every failed request, other errors included
AfterAttemptRetryingAll(frame, outcome) ==
    LET tried == [frame EXCEPT !.requests = @ + 1, !.last = outcome]
    IN  IF outcome \in {"data", "unclean"}
        THEN [tried EXCEPT !.df = [symbol |-> frame.request.symbol,
                                   timeframe |-> frame.request.timeframe,
                                   rows |-> outcome],
                           !.pc = "finish"]
        ELSE [tried EXCEPT !.attempt = @ + 1,
                           !.pc = IF frame.attempt + 1 < max_retries
                                  THEN "attempt" ELSE "finish"]

\* the frame of the call after one pass of the retry loop
AfterAttempt(frame, outcome) ==
    LET tried == [frame EXCEPT !.requests = @ + 1, !.last = outcome]
    IN  CASE outcome \in {"data", "unclean"} ->
                [tried EXCEPT !.df = [symbol |-> frame.request.symbol,
                                      timeframe |-> frame.request.timeframe,
                                      rows |-> outcome],
                              !.pc = "finish"]
          [] outcome = "empty" ->
                [tried EXCEPT !.df = EmptyFrame,
                              !.attempt = @ + 1,
                              !.pc = IF frame.attempt + 1 < max_retries
                                     THEN "attempt" ELSE "finish"]
          [] outcome = "rate limit" ->
                IF frame.attempt < max_retries - 1
                THEN [tried EXCEPT !.attempt = @ + 1, !.pc = "attempt"]
                ELSE [tried EXCEPT !.pc = "raised"]
          [] outcome = "error" -> [tried EXCEPT !.pc = "raised"]

\* one pass of the retry loop: one upstream request
fetch_attempt ==
    /\ ~Ended
    /\ call.pc = "attempt"
    /\ \E outcome \in Outcomes : call' = AfterAttempt(call, outcome)
    /\ UNCHANGED <<fetcher, now, stored, pipeline, http_response, calls, frames>>

\* after the loop: no rows, or none left by the cleaning, raises; otherwise
\* the data is cached if use_cache holds, and returned
fetch_finish ==
    /\ ~Ended
    /\ call.pc = "finish"
    /\ IF call.df = NoFrame \/ call.df = EmptyFrame \/ call.df.rows = "unclean"
       THEN /\ call' = [call EXCEPT !.pc = "raised"]
            /\ UNCHANGED <<fetcher, stored>>
       ELSE /\ call' = [call EXCEPT !.pc = "returned", !.returned = call.df]
            /\ IF call.request.use_cache
               THEN /\ fetcher' = [fetcher EXCEPT !.cache =
                                      [k \in DOMAIN fetcher.cache \cup {call.cache_key} |->
                                          IF k = call.cache_key
                                          THEN [data |-> call.df, timestamp |-> now]
                                          ELSE fetcher.cache[k]]]
                    /\ stored' = [k \in DOMAIN stored \cup {call.cache_key} |->
                                     IF k = call.cache_key THEN now ELSE stored[k]]
               ELSE UNCHANGED <<fetcher, stored>>
    /\ UNCHANGED <<now, pipeline, http_response, calls, frames>>

NextFetch ==
    \/ tick
    \/ fetch_live_data
    \/ fetch_attempt
    \/ fetch_finish

\* a call that has begun goes on running
SpecFetch ==
    InitFetch /\ [][NextFetch]_vars /\ WF_vars(fetch_attempt) /\ WF_vars(fetch_finish)

Fresh(cache_key, timeframe) ==
    /\ cache_key \in DOMAIN stored
    /\ now - stored[cache_key] < CACHE_DURATION[timeframe]

\* C30: a call with use_cache=True is served from the cache, without an
\* upstream request, exactly when an entry for the same (symbol, timeframe,
\* period) was stored by an earlier successful call less than
\* CACHE_DURATION[timeframe] seconds ago; a failed call never adds or changes
\* a cache entry; a call with use_cache=False neither reads nor writes the
\* cache.
C30_CacheServes ==
    [][/\ (Ended /\ ~Ended') =>
             /\ ~call'.served /\ call'.requests = 0
             /\ ~(call'.request.use_cache
                   /\ Fresh(call'.cache_key, call'.request.timeframe))
       /\ (Ended /\ Ended' /\ call' # call) =>
             /\ call'.served /\ call'.requests = 0 /\ call'.pc = "returned"
             /\ call'.request.use_cache
             /\ Fresh(call'.cache_key, call'.request.timeframe)
             /\ call'.returned = fetcher.cache[call'.cache_key].data
       /\ (~Ended /\ call'.pc = "raised") => fetcher' = fetcher
       /\ (~Ended /\ ~call.request.use_cache) => fetcher' = fetcher
       /\ (~Ended /\ call'.pc = "returned" /\ call.request.use_cache) =>
             /\ call.cache_key \in DOMAIN fetcher'.cache
             /\ fetcher'.cache[call.cache_key] = [data |-> call'.returned,
                                                  timestamp |-> now]
       /\ fetcher' # fetcher =>
             (~Ended /\ call'.pc = "returned" /\ call.request.use_cache
              /\ call.requests >= 1)
      ]_vars

\* a call served from the cache while the entry of the other timeframe,
\* stored 60 seconds ago, has run out
C30_Witness ==
    /\ call # NoCall
    /\ call.served
    /\ call.request.timeframe = "5m"
    /\ call.requests = 0
    /\ _get_cache_key("RELIANCE", "1m", "7d") \in DOMAIN fetcher.cache
    /\ now - fetcher.cache[_get_cache_key("RELIANCE", "1m", "7d")].timestamp = 60
    /\ ~_is_cache_valid(fetcher.cache[_get_cache_key("RELIANCE", "1m", "7d")], "1m")
====
